---- MODULE Spec2Model ----
(***************************************************************************)
(* Verification model of the zapi cluster coordination core:               *)
(*   - JobQueueServer   (src/src/server/JobQueueServer.js)                  *)
(*   - EventServer      (src/src/Core/events/EventServer.js)                *)
(*   - RedisEventService(src/src/Core/events/RedisEventService.js)          *)
(*   - worker boot      (src/src/server/WorkerServer.js)                    *)
(* Each component has its own specification over the shared variables; the *)
(* variables of the other components keep their initial values.            *)
(***************************************************************************)
EXTENDS Integers, Sequences, FiniteSets, Bags, TLC

VARIABLES
    jobs,       \* JobQueueServer.jobs: name -> definition
    options,    \* JobQueueServer.options (+ the worker index start() reads)
    jq,         \* JobQueueServer fields: queue, running, _active, stats, throttle, redis;
                \* pumps: the suspended _pump coroutines
    rlist,      \* the remote list 'jobq:_all' in the store
    hist,       \* observation: ids handed out, push and pop order, execute invocations, failures
    ret,        \* observation: outcome of the last enqueue call
    es,         \* EventServer fields: _started, _buffer, the local emitter's listeners, adapters
    subs,       \* the subscribe() calls made so far: topic and handler behaviour
    pubs,       \* the publish() calls made so far, each an async call: where it is suspended
    drain,      \* the start() call of the EventServer: where it is suspended
    storeUp,    \* whether the remote store is reachable
    boot,       \* runWorkerInline: how far the worker's boot has come
    seen,       \* observation: the envelopes each handler was invoked with, in order
    dedupe,     \* OutageDeduper: per worker process, the states map (key -> entry)
    flags,      \* InfraStatus: per worker process, the flags object
    bus,        \* the worker's MessageBus: emitter listeners, _pub, _sub, _redisAttached
    obs,        \* observation: results of the deduper and InfraStatus calls, events announced
    services,   \* the service registry: the names registered
    cluster,    \* the primary's view: cluster.workers, the workers forked, what they published
    hb,         \* the leader's heartbeat aggregator: hbState and the snapshots published
    metrics     \* a worker's metrics ingestor (counters) and the leader's aggregator
                \* (aggPayload, aggTimer)

jobVars == <<jobs, options, jq, rlist, hist, ret>>

evVars == <<es, subs, pubs, drain, storeUp, boot, seen>>

infraVars == <<dedupe, flags, bus, obs, services, cluster, hb, metrics>>

vars == <<jobs, options, jq, rlist, hist, ret, es, subs, pubs, drain, storeUp, boot, seen,
          dedupe, flags, bus, obs, services, cluster, hb, metrics>>

----------------------------------------------------------------------------
(* Bounds of the model *)

\* total number of job records created (enqueue calls that pass the name check, and foreign pushes)
MaxJobs == 3
\* number of pump coroutines that can be alive at once, and largest configured jobworkerinstances
MaxPumps == 2
\* configured throttlecount (options.throttlecount; the code's default is 100)
ThrottleCount == 2
\* number of EventServer.publish calls
MaxPubs == 2
\* number of EventServer.subscribe calls
MaxSubs == 1
\* number of down(key) or up(key) calls in a row that are observed for one key
MaxRow == 3

MaxHandlers == 2

MaxWorkers == 2

MaxForks == 4

MaxKeys == 3

MaxBuffered == 2
\* metric events published on the worker's bus
MaxEvents == 3
\* flushes of other workers that reach the leader
MaxFlushes == 1
\* heartbeats sent over the inter-process channel
MaxBeats == 2

\* Raw metric events published in the cluster
MaxIncs == 2

----------------------------------------------------------------------------
(* OutageDeduper and InfraStatus *)

\* The worker processes of the cluster; the leader is the worker with index 0
Leader == 0

Workers == {0, 1}

\* Resource keys the connections are attached under
Keys == {"redis:cache", "redis:cache:dup", "redis:eventbus:pub"}

\* Flag names; "other" is a name the constructor does not initialise
FlagNames == {"redisUp", "mongoUp", "other"}

\* Values as JavaScript holds them: the booleans, and undefined
JsValues == {"true", "false", "undefined"}

\* The !! conversion
ToBool(v) == v = "true"

FromBool(b) == IF b THEN "true" ELSE "false"

\* const states = new Map(): no key has an entry
InitStates == [k \in Keys |-> "absent"]

\* InfraStatus constructor: redisUp and mongoUp are false
InitFlags == [f \in FlagNames |-> IF f = "other" THEN "undefined" ELSE "false"]

\* Variant: down reports emitted on every call
OutageDownAlways(d, key) == [states |-> [d EXCEPT ![key] = "down"], emitted |-> TRUE]

\* down(key, meta): [states, emitted]
OutageDown(d, key) ==
    IF d[key] = "down"
    THEN [states |-> d, emitted |-> FALSE]
    ELSE [states |-> [d EXCEPT ![key] = "down"], emitted |-> TRUE]

\* Variant: up reports emitted unless the key's entry says it is up
OutageUpUnlessUp(d, key) == [states |-> [d EXCEPT ![key] = "up"], emitted |-> d[key] # "up"]

\* up(key, meta): [states, emitted]
OutageUp(d, key) == [states |-> [d EXCEPT ![key] = "up"], emitted |-> d[key] = "down"]

\* Variant: set emits on every call
InfraSetAlways(f, name, val) ==
    [flags |-> [f EXCEPT ![name] = FromBool(ToBool(val))],
     event |-> <<name, IF ToBool(val) THEN "up" ELSE "down">>]

\* InfraStatus.set(name, val): the flags and the event emitted (<<>>: none)
InfraSet(f, name, val) ==
    LET prev == ToBool(f[name])
        next == ToBool(val)
    IN  [flags |-> [f EXCEPT ![name] = FromBool(next)],
         event |-> IF prev # next THEN <<name, IF next THEN "up" ELSE "down">> ELSE <<>>]

NoSet == [op |-> "none", name |-> "", val |-> "undefined", before |-> InitFlags,
          after |-> InitFlags, event |-> <<>>]

\* downs[k]: the results of the down(k) calls since the last up(k);
\* ups[k]: the results of the up(k) calls since the last down(k);
\* wasDown[k]: whether a down(k) call came before those up(k) calls;
\* set: the last InfraStatus.set call;
\* announced: the 'zapi:infra:redis:down' / ':up' publishes of the current outage episode;
\* handed: the (message id, adapter) pairs of the messages from the store that the
\* pmessage listener passed to an adapter's publish
\* arrived: the ids of the messages that arrived from the store on the subscriber
\* connection (the copy of this process's publish i has id -i)
InitObs == [downs |-> [k \in Keys |-> <<>>], ups |-> [k \in Keys |-> <<>>],
            wasDown |-> [k \in Keys |-> FALSE], set |-> NoSet,
            announced |-> [down |-> 0, up |-> 0, by |-> {}],
            arrived |-> {}, handed |-> {}]

\* No MessageBus constructed yet. Of a constructed one: the factory passed in, _pub, _sub,
\* _redisAttached, the handlers in the order they were attached to the emitter (with the
\* publishes each was invoked with), and the publish calls made
\* closed: close() has been called
NoBus == [created |-> FALSE, factory |-> "none", attached |-> FALSE, pub |-> "null",
          sub |-> "null", handlers |-> <<>>, calls |-> <<>>, closed |-> FALSE]

\* The primary before start(): nothing forked. workers: cluster.workers, pid -> the
\* WORKER_INDEX the worker was forked with; lingering: the pids of exited workers not yet
\* removed from cluster.workers; forks: the forks made so far; published: the pids that
\* published a cluster-wide event
NoCluster == [desired |-> 0, workers |-> <<>>, lingering |-> {}, forks |-> 0, published |-> {}]

\* hbState empty (line 306), no snapshot published. window: the keys a sample came from
\* since the last tick; snap: the last snapshot published (phase alternates from one
\* tick to the next), with fresh, the number of keys in the window it closed
NoSnap == [taken |-> FALSE, phase |-> FALSE, observed |-> 0, fresh |-> 0,
           stats |-> [f \in {"uptimeSec", "rss", "heapUsed"} |-> [min |-> 0, avg |-> 0, max |-> 0]]]

\* The inter-process channel between the workers and the primary: sent, the heartbeats
\* sent so far; up, the messages the primary has not handled yet, in the order it will;
\* down, the messages the primary forwarded to each worker, in the order of its channel;
\* rec, the hbState of each worker process (pid -> key -> sample); overwrites, how often
\* a stored sample was replaced
NoIpc == [sent |-> 0, up |-> <<>>, down |-> [p \in 1..MaxForks |-> <<>>],
          rec |-> [p \in 1..MaxForks |-> <<>>], overwrites |-> 0]

NoHb == [state |-> <<>>, window |-> {}, snap |-> NoSnap, ipc |-> NoIpc]

\* The counter keys of the metric events
MetricKeys == {"a", "b"}

\* A counter map without entries (new Map(), Object.create(null)): the keys present and
\* their values
NoCounters == [keys |-> {}, vals |-> [k \in MetricKeys |-> 0]]

\* The workers of one cluster, each with its MessageBus and its metrics ingestor.
\* attached: the buses are remote-attached (all of them, or none); counters: each
\* worker's ingestor; net: the messages the store has still to deliver to the pattern
\* subscription of a worker's bus, in order; observations: raw (the sum of the increments
\* the workers published on 'sys:metrics'), out (the sum of the values of the cluster
\* flush events the leader published), incs (the raw events published)
NoFleet == [attached |-> FALSE, counters |-> [w \in Workers |-> NoCounters], net |-> <<>>,
            raw |-> [k \in MetricKeys |-> 0], out |-> [k \in MetricKeys |-> 0], incs |-> 0]

\* createMetricsIngestor: counters empty; WorkerServer.js 134-135: aggTimer null,
\* aggPayload.snapshot empty. leader: the process is the leader's; timers: the debounce
\* timeouts armed and not yet run; event, events: the last cluster flush event published
\* and how many were; observations: incs (metric events ingested), ingested (the sum of
\* the increments per key), flushes and flushed (the worker flushes published and the sum
\* of their values per key), remote (flushes of other workers received), recvLog (the
\* snapshots the leader received since the last cluster flush event), coalesced (how
\* many snapshots the last cluster flush event closed)
NoMetrics == [leader |-> FALSE, counters |-> NoCounters, aggPayload |-> NoCounters,
              aggTimer |-> FALSE, timers |-> 0, event |-> NoCounters, events |-> 0,
              incs |-> 0, ingested |-> [k \in MetricKeys |-> 0],
              flushes |-> 0, flushed |-> [k \in MetricKeys |-> 0],
              remote |-> 0, recvLog |-> <<>>, coalesced |-> 0, fleet |-> NoFleet]

\* The deduper, the flags and the bus of a specification about another component
InfraIdle ==
    /\ dedupe = [w \in Workers |-> InitStates]
    /\ flags = [w \in Workers |-> InitFlags]
    /\ bus = NoBus
    /\ obs = InitObs
    /\ services = {"EventServer", "HealthService"}
    /\ cluster = NoCluster
    /\ hb = NoHb
    /\ metrics = NoMetrics

----------------------------------------------------------------------------
(* EventServer *)

\* Event and topic names, as the sequences of their characters
TopicA == <<"a">>

TopicNsA == <<"n", "s", ":", "a">>

TopicZapiA == <<"z", "a", "p", "i", ":", "a">>

Star == <<"*">>

NsStar == <<"n", "s", ":", "*">>

ZapiStar == <<"z", "a", "p", "i", ":", "*">>

\* The names publish is called with, and the topics subscribe is called with
EventNames == {TopicA, TopicNsA, TopicZapiA}

Topics == {TopicA, TopicNsA, Star, NsStar, ZapiStar}

Channels == EventNames \cup Topics

NoEnv == [id |-> 0, event |-> <<>>]

\* String.prototype.endsWith('*') and startsWith(p)
EndsWithStar(t) == Len(t) > 0 /\ t[Len(t)] = "*"

StartsWith(e, p) == Len(p) <= Len(e) /\ SubSeq(e, 1, Len(p)) = p

\* subscribe, lines 83-90: whether the listener fn of a subscription to topic calls the handler
FnCallsHandler(topic, event) ==
    \/ topic = Star \/ topic = ZapiStar
    \/ event = topic
    \/ EndsWithStar(topic) /\ StartsWith(event, SubSeq(topic, 1, Len(topic) - 1))

\* subscribe, lines 92-94: the emitter channels fn is attached to, in order
FnChannels(topic) ==
    IF topic = Star \/ EndsWithStar(topic) THEN <<Star, topic>> ELSE <<topic>>

RECURSIVE AttachAll(_, _, _)
\* this.local.on(channel, fn) for each channel of chans
AttachAll(listeners, chans, h) ==
    IF chans = <<>> THEN listeners
    ELSE AttachAll([listeners EXCEPT ![Head(chans)] = Append(@, h)], Tail(chans), h)

RECURSIVE CallListeners(_, _, _)
\* EventEmitter.emit: the listeners run in the order they were attached; a listener that
\* throws ends the emit and the exception reaches the caller of emit.
\* d: what each handler has seen; result: [seen, threw]
CallListeners(d, ls, env) ==
    IF ls = <<>> THEN [seen |-> d, threw |-> FALSE]
    ELSE LET h  == Head(ls)
             d1 == IF FnCallsHandler(subs[h].topic, env.event)
                   THEN [d EXCEPT ![h] = Append(@, env.id)] ELSE d
         IN  IF FnCallsHandler(subs[h].topic, env.event) /\ subs[h].throws
             THEN [seen |-> d1, threw |-> TRUE]
             ELSE CallListeners(d1, Tail(ls), env)

\* this.local.emit(channel, env)
Emit(e, d, channel, env) == CallListeners(d, e.listeners[channel], env)

\* publish lines 75-76, start lines 34-35: emit on the event's name, then on '*'
LocalDeliver(e, d, env) ==
    LET r1 == Emit(e, d, env.event, env)
    IN  IF r1.threw THEN r1 ELSE Emit(e, r1.seen, Star, env)

\* The adapters the worker registers: "echo" is SystemEventService's with localEcho on,
\* "redis" is RedisEventService's
AdapterKinds == {"redis", "echo"}

\* Adapters an application registers through registerAdapter, lines 24-27, whose publish
\* fails: "throws" throws before returning a promise, "rejects" returns a promise that
\* is rejected
FailingKinds == {"throws", "rejects"}

\* The synchronous part of an adapter's publish(env), up to its first await.
\* "echo": emits on the event's name, errors swallowed.
\* "redis": issues pub.publish and awaits it.
AdapterInvoke(e, d, kind, env) ==
    IF kind = "echo" THEN Emit(e, d, env.event, env).seen ELSE d

\* The promise of adapter kind's publish can settle: the redis adapter awaits a command on
\* a client created with maxRetriesPerRequest: null, which stays queued while the store is
\* unreachable
AdapterCanSettle(kind) == kind = "redis" => storeUp

RECURSIVE AdapterLoop(_, _, _, _)
\* The loop of line 77 without its try/catch: a throw out of ad.publish ends the loop
AdapterLoopStopsOnThrow(e, d, env, i) ==
    IF i > Len(e.adapters) THEN [seen |-> d, ad |-> 0, inv |-> <<>>]
    ELSE IF e.adapters[i] = "throws"
         THEN [seen |-> d, ad |-> 0, inv |-> <<"throws">>]
         ELSE [seen |-> AdapterInvoke(e, d, e.adapters[i], env), ad |-> i,
               inv |-> <<e.adapters[i]>>]

\* publish line 77, start line 36:
\*   for (const ad of this.adapters) { try { await ad.publish(env); } catch {} }
\* from adapter number i on, up to the first await. A throw out of ad.publish is caught
\* and the loop goes on at once. Result: what the handlers have seen, the adapter now
\* awaited (0: the loop is over) and the adapters invoked on the way
AdapterLoop(e, d, env, i) ==
    IF i > Len(e.adapters) THEN [seen |-> d, ad |-> 0, inv |-> <<>>]
    ELSE IF e.adapters[i] = "throws"
         THEN LET r == AdapterLoop(e, d, env, i + 1)
              IN  [r EXCEPT !.inv = <<"throws">> \o @]
         ELSE [seen |-> AdapterInvoke(e, d, e.adapters[i], env), ad |-> i,
               inv |-> <<e.adapters[i]>>]

RECURSIVE DrainLoop(_, _, _)
\* start, lines 33-38: the loop over the spliced buffer, up to the first await; a throw out
\* of emit is caught by the outer try and ends the loop
DrainLoop(e, d, rest) ==
    IF rest = <<>> THEN [seen |-> d, co |-> [pc |-> "done", env |-> NoEnv, rest |-> <<>>, ad |-> 0]]
    ELSE LET env == Head(rest)
             r   == LocalDeliver(e, d, env)
             a   == AdapterLoop(e, r.seen, env, 1)
         IN  IF r.threw
             THEN [seen |-> r.seen, co |-> [pc |-> "done", env |-> NoEnv, rest |-> <<>>, ad |-> 0]]
             ELSE IF a.ad = 0
                  THEN DrainLoop(e, a.seen, Tail(rest))
                  ELSE [seen |-> a.seen,
                        co |-> [pc |-> "await", env |-> env, rest |-> Tail(rest), ad |-> a.ad]]

\* A call of publish: where it is, its envelope, the adapter it awaits, whether it was
\* made before start(); health is what the lookup of line 48 gave and state the
\* header.state of the envelope built; nsub, nad and inv record the handlers subscribed and
\* the adapters registered when it was made, and the adapters it has invoked
NoPub == [pc |-> "none", env |-> NoEnv, ad |-> 0, early |-> FALSE, health |-> "none",
          state |-> "unbuilt", nsub |-> 0, nad |-> 0, inv |-> <<>>]

InitEs == [resolveService |-> TRUE, started |-> FALSE, buffer |-> <<>>,
           listeners |-> [c \in Channels |-> <<>>], adapters |-> <<>>]

NoDrain == [pc |-> "none", env |-> NoEnv, rest |-> <<>>, ad |-> 0]

NoBoot == [pc |-> "none", leader |-> FALSE, redis |-> FALSE, localEcho |-> FALSE, call |-> NoPub,
           pmessage |-> FALSE]

\* The EventServer variables as the constructor leaves them
InitEvents ==
    /\ es = InitEs
    /\ subs = <<>>
    /\ pubs = [i \in 1..MaxPubs |-> NoPub]
    /\ drain = NoDrain
    /\ seen = <<>>

\* The EventServer part of a specification about another component
EventsIdle == InitEvents /\ storeUp = FALSE /\ boot = NoBoot

NextPub == IF \E i \in 1..MaxPubs : pubs[i].pc = "none"
           THEN CHOOSE i \in 1..MaxPubs : pubs[i].pc = "none" /\ \A j \in 1..(i - 1) : pubs[j].pc # "none"
           ELSE 0

\* subscribe(topic, handler) with a new handler
Subscribe(topic, throws) ==
    /\ Len(subs) < MaxSubs
    /\ LET h == Len(subs) + 1
       IN  /\ subs' = Append(subs, [topic |-> topic, throws |-> throws, early |-> ~es.started])
           /\ seen' = Append(seen, <<>>)
           /\ es' = [es EXCEPT !.listeners = AttachAll(@, FnChannels(topic), h)]
    /\ UNCHANGED <<pubs, drain, storeUp, boot>>

\* registerAdapter(adapter)
RegisterAdapter(kind) ==
    /\ \A i \in DOMAIN es.adapters : es.adapters[i] # kind
    /\ es' = [es EXCEPT !.adapters = Append(@, kind)]
    /\ UNCHANGED <<subs, pubs, drain, storeUp, boot, seen>>

\* publish line 48: this.resolveService ? this.resolveService('HealthService') : null,
\* where resolveService is reg.get: "none" without a resolver, "missing" when the registry
\* throws because the name is not registered, "provider" otherwise
ResolveHealth(e) ==
    IF ~e.resolveService THEN "none"
    ELSE IF "HealthService" \in services THEN "provider" ELSE "missing"

\* publish line 49: Health?.getState ? Health.getState() : { status: 'Ok', meta: {} }
EnvelopeState(e) ==
    CASE ResolveHealth(e) = "provider" -> "provider"
      [] ResolveHealth(e) = "none"     -> "Ok"
      [] OTHER                         -> "unbuilt"

\* publish(event, payload), lines 47-78, up to its first await: the server, what the
\* handlers have seen, and the call (returned, thrown out of by the registry or by a
\* listener, or awaiting an adapter)
PublishRun(e, d, env) ==
    LET r == LocalDeliver(e, d, env)
        a == AdapterLoop(e, r.seen, env, 1)
    IN  IF ResolveHealth(e) = "missing"
        THEN [es |-> e, seen |-> d,
              co |-> [pc |-> "threw", env |-> env, ad |-> 0, early |-> ~e.started,
                      health |-> ResolveHealth(e), state |-> EnvelopeState(e),
                      nsub |-> Len(d), nad |-> Len(e.adapters), inv |-> <<>>]]
        ELSE IF ~e.started
        THEN [es |-> [e EXCEPT !.buffer = Append(@, env)], seen |-> d,
              co |-> [pc |-> "returned", env |-> env, ad |-> 0, early |-> TRUE,
                      health |-> ResolveHealth(e), state |-> EnvelopeState(e),
                      nsub |-> Len(d), nad |-> Len(e.adapters), inv |-> <<>>]]
        ELSE IF r.threw
             THEN [es |-> e, seen |-> r.seen,
                   co |-> [pc |-> "threw", env |-> env, ad |-> 0, early |-> FALSE,
                           health |-> ResolveHealth(e), state |-> EnvelopeState(e),
                      nsub |-> Len(d), nad |-> Len(e.adapters), inv |-> <<>>]]
             ELSE [es |-> e, seen |-> a.seen,
                   co |-> [pc |-> IF a.ad = 0 THEN "returned" ELSE "await",
                           env |-> env, ad |-> a.ad, early |-> FALSE,
                           health |-> ResolveHealth(e), state |-> EnvelopeState(e),
                      nsub |-> Len(d), nad |-> Len(e.adapters), inv |-> a.inv]]

\* publish, line 77, after the awaited adapter has settled (a rejection is caught): the
\* next adapter is invoked, or publish returns
PublishContinue(e, d, co) ==
    LET a == AdapterLoop(e, d, co.env, co.ad + 1)
    IN  [seen |-> a.seen,
         co |-> [co EXCEPT !.pc = IF a.ad = 0 THEN "returned" ELSE "await", !.ad = a.ad,
                           !.inv = @ \o a.inv]]

\* a caller other than the boot sequence calls publish(event, payload)
Publish(event) ==
    /\ NextPub # 0
    /\ LET r == PublishRun(es, seen, [id |-> NextPub, event |-> event])
       IN  /\ es' = r.es
           /\ seen' = r.seen
           /\ pubs' = [pubs EXCEPT ![NextPub] = r.co]
    /\ UNCHANGED <<subs, drain, storeUp, boot>>

\* the adapter awaited by publish call i settles
PublishResume(i) ==
    /\ pubs[i].pc = "await"
    /\ AdapterCanSettle(es.adapters[pubs[i].ad])
    /\ LET r == PublishContinue(es, seen, pubs[i])
       IN  seen' = r.seen /\ pubs' = [pubs EXCEPT ![i] = r.co]
    /\ UNCHANGED <<es, subs, drain, storeUp, boot>>

\* start(), up to its first await
StartEvents ==
    /\ drain.pc = "none"
    /\ LET e == [es EXCEPT !.started = TRUE, !.buffer = <<>>]
           r == DrainLoop(e, seen, es.buffer)
       IN  /\ es' = e
           /\ seen' = r.seen
           /\ drain' = r.co
    /\ UNCHANGED <<subs, pubs, storeUp, boot>>

\* the adapter awaited by start() settles: the next adapter, the next buffered envelope,
\* or start() returns
DrainResume ==
    /\ drain.pc = "await"
    /\ AdapterCanSettle(es.adapters[drain.ad])
    /\ LET a == AdapterLoop(es, seen, drain.env, drain.ad + 1)
           r == DrainLoop(es, a.seen, drain.rest)
       IN  IF a.ad # 0
           THEN seen' = a.seen /\ drain' = [drain EXCEPT !.ad = a.ad]
           ELSE seen' = r.seen /\ drain' = r.co
    /\ UNCHANGED <<es, subs, pubs, storeUp, boot>>

\* the remote store becomes reachable or unreachable
StoreFlip ==
    /\ storeUp' = ~storeUp
    /\ UNCHANGED <<es, subs, pubs, drain, boot, seen>>

----------------------------------------------------------------------------
(* JobQueueServer *)

NoJob == [id |-> 0, name |-> "none"]

\* Elapsed times a throttle episode can be measured at (Date.now() differences)
Durations == {0, 1}

\* Job definitions as registered from app/jobQueueRoutes.js: whether a middleware
\* is present, and which outcomes middleware and execute can have.
PlainDef == [middleware |-> FALSE, mwOut |-> {"ok"}, exOut |-> {"ok", "throw"}]

MiddlewareDef == [middleware |-> TRUE, mwOut |-> {"ok", "throw"}, exOut |-> {"ok", "throw"}]

\* The registries init() can leave behind: one job name, with either kind of definition.
Registries == { [job |-> PlainDef], [job |-> MiddlewareDef] }

\* Names callers pass to enqueue and other workers push: the registered one and one that is not.
CallNames == {"job", "nope"}

\* Deployments: the (leaderOnly, workerIndex) pairs start() distinguishes.
Deployments == { [leaderOnly |-> FALSE, workerIndex |-> 0], [leaderOnly |-> TRUE, workerIndex |-> 1] }

\* The state after the constructor and init().
InitJq(useredis) ==
    [ queue            |-> <<>>,
      running          |-> FALSE,
      active           |-> 0,
      totalJobs        |-> 0,
      perRoute         |-> [n \in {"job"} |-> 0],
      throttleEvents   |-> 0,
      throttledMsTotal |-> 0,
      throttleActive   |-> FALSE,
      throttleStart    |-> 0,
      redis            |-> IF useredis THEN "ready" ELSE "none",
      pumps            |-> EmptyBag ]

\* No definition
NoDef == [middleware |-> FALSE, mwOut |-> {}, exOut |-> {}]

InitHist == [nextId |-> 1, memLog |-> <<>>, popLog |-> <<>>, pushFailed |-> {},
             execCount |-> [i \in 1..MaxJobs |-> 0], failures |-> 0,
             defLog |-> [i \in 1..MaxJobs |-> NoDef]]

NoCall == [op |-> "none", threw |-> FALSE, id |-> 0]

\* Variant: the record is put at the head of the queue (unshift instead of push)
QueueUnshift(q, job) == <<job>> \o q

\* Array.prototype.push on this.queue
QueuePush(q, job) == Append(q, job)

\* Variant: the head of the queue is read but not removed
QueueShiftPeek(q) == q

\* Array.prototype.shift on this.queue: what is left after the head is taken
QueueShift(q) == Tail(q)

\* _throttleBegin; _throttleStart = Date.now(), a positive time
ThrottleBegin(s) ==
    [s EXCEPT !.throttleActive = TRUE,
              !.throttleStart  = 1,
              !.throttleEvents = @ + 1]

\* _throttleEnd; dur is Date.now() - (this._throttleStart || Date.now())
ThrottleEnd(s, dur) ==
    [s EXCEPT !.throttleActive   = FALSE,
              !.throttledMsTotal = @ + (IF s.throttleStart = 0 THEN 0 ELSE dur),
              !.throttleStart    = 0]

\* Variant: the throttle begins only above throttlecount
MaybeThrottleAbove(s, dur) ==
    IF s.redis # "none" THEN s
    ELSE LET n  == Len(s.queue)
             s1 == IF ~s.throttleActive /\ n > options.throttlecount THEN ThrottleBegin(s) ELSE s
         IN  IF s1.throttleActive /\ n < options.throttlecount THEN ThrottleEnd(s1, dur) ELSE s1

\* _maybeThrottle: two independent ifs, the second reading the state the first left
MaybeThrottle(s, dur) ==
    IF s.redis # "none" THEN s
    ELSE LET n  == Len(s.queue)
             s1 == IF ~s.throttleActive /\ n >= options.throttlecount THEN ThrottleBegin(s) ELSE s
         IN  IF s1.throttleActive /\ n < options.throttlecount THEN ThrottleEnd(s1, dur) ELSE s1

\* Variant: every name counts as registered
RegisteredAlways(name) == TRUE

\* enqueue, line 184: this.jobs.has(name)
Registered(name) == name \in DOMAIN jobs

\* enqueue(name, payload). push is what redis.rpush does when a remote list is
\* configured: "ok" (the record reaches the list), "throws" (the call raises
\* synchronously, e.g. JSON.stringify of the record fails), "rejects" (the
\* returned promise, which enqueue does not await, rejects).
\* Result: the new server state, list and observations, and what the caller sees.
Enqueue(s, l, h, name, push, dur) ==
    IF ~Registered(name)
    THEN [jq |-> s, rlist |-> l, hist |-> h, ret |-> [op |-> "enqueue", threw |-> TRUE, id |-> 0]]
    ELSE LET job == [id |-> h.nextId, name |-> name]
             h1  == [h EXCEPT !.nextId = @ + 1,
                              !.pushFailed = IF push \in {"throws", "rejects"} THEN @ \cup {job.id} ELSE @]
             out == [op |-> "enqueue", threw |-> FALSE, id |-> job.id]
             mem == [jq    |-> MaybeThrottle([s EXCEPT !.queue = QueuePush(@, job)], dur),
                     rlist |-> l,
                     hist  |-> [h1 EXCEPT !.memLog = Append(@, job.id)],
                     ret   |-> out]
         IN  IF s.redis # "none"
             THEN CASE push = "ok"      -> [jq |-> s, rlist |-> Append(l, job), hist |-> h1, ret |-> out]
                    [] push = "throws"  -> mem
                    [] push = "rejects" -> [jq |-> s, rlist |-> l, hist |-> h1, ret |-> out]
             ELSE mem

\* A _pump coroutine reaches an await: it is suspended there, holding its job
Park(st, pc, job) == [st EXCEPT !.jq.pumps = @ (+) SetToBag({[pc |-> pc, job |-> job]})]

\* The awaited promise of the suspended coroutine pr settles: it runs again
Resume(st, pr) == [st EXCEPT !.jq.pumps = @ (-) SetToBag({pr})]

RECURSIVE PumpLoop(_), PumpRun(_, _), PumpAfter(_)

\* Variant: the failure ends the pump coroutine (no catch inside the loop)
PumpCatchStops(st) == [st EXCEPT !.hist.failures = @ + 1, !.jq.active = @ - 1]

\* _pump, lines 363-365: the catch block; the failure is logged and the loop goes on
PumpCatch(st) == PumpAfter([st EXCEPT !.hist.failures = @ + 1])

\* _pump, lines 365-370: finally { _active-- }, the throttle sleep, and back to the loop head
PumpAfter(st) ==
    LET s1 == [st EXCEPT !.jq.active = @ - 1]
    IN  IF s1.jq.throttleActive
        THEN Park(s1, "throttle", NoJob)
        ELSE PumpLoop(s1)

\* _pump, lines 339-346: a popped job up to the first await
PumpRun(st, job) ==
    LET s1 == [st EXCEPT !.jq.active = @ + 1, !.hist.popLog = Append(@, job.id)]
        s2 == [s1 EXCEPT !.hist.defLog[job.id] = jobs[job.name]]
    IN  IF job.name \notin DOMAIN jobs
        THEN PumpCatch(s1)
        ELSE IF jobs[job.name].middleware
             THEN Park(s2, "middleware", job)
             ELSE Park([s2 EXCEPT !.hist.execCount[job.id] = @ + 1], "execute", job)

\* _pump, lines 323-337: the loop head up to the first await; the coroutine ends
\* when running is false
PumpLoop(st) ==
    IF ~st.jq.running
    THEN st
    ELSE IF st.jq.redis # "none"
         THEN Park(st, "blpop", NoJob)
         ELSE IF st.jq.queue = <<>>
              THEN Park(st, "sleep", NoJob)
              ELSE PumpRun([st EXCEPT !.jq.queue = QueueShift(@)], Head(st.jq.queue))

\* _pump, lines 346-361: middleware passed, execute is invoked
PumpExecute(st, job) == Park([st EXCEPT !.hist.execCount[job.id] = @ + 1], "execute", job)

\* _pump, lines 348-361: execute returned; statistics, then the completion broadcast
PumpDone(st, job) ==
    LET s1 == [st EXCEPT !.jq.totalJobs = @ + 1, !.jq.perRoute[job.name] = @ + 1]
    IN  IF options.broadcast
        THEN Park(s1, "broadcast", job)
        ELSE PumpAfter(s1)

RECURSIVE SpawnPumps(_, _)
\* start(), line 143: for (i < _concurrency) this._pump(); each call runs to its first await
SpawnPumps(st, n) == IF n = 0 THEN st ELSE SpawnPumps(PumpLoop(st), n - 1)

St == [jq |-> jq, hist |-> hist]

Commit(st) == jq' = st.jq /\ hist' = st.hist

\* The suspended coroutines waiting at one of the awaits pcs
Suspended(pcs) == {pr \in BagToSet(jq.pumps) : pr.pc \in pcs}

\* start()
Start ==
    /\ BagCardinality(jq.pumps) + options.jobworkerinstances <= MaxPumps
    /\ IF options.leaderOnly /\ options.workerIndex # 0
       THEN UNCHANGED <<jq, hist>>
       ELSE Commit(SpawnPumps([St EXCEPT !.jq.running = TRUE], options.jobworkerinstances))
    /\ UNCHANGED <<jobs, options, rlist, ret>>

\* stop(); redis.quit() ends the client connection
Stop ==
    /\ \E dur \in Durations :
         LET s1 == [jq EXCEPT !.running = FALSE]
             s2 == IF s1.throttleActive THEN ThrottleEnd(s1, dur) ELSE s1
         IN  jq' = IF s2.redis # "none" THEN [s2 EXCEPT !.redis = "end"] ELSE s2
    /\ UNCHANGED <<jobs, options, rlist, hist, ret>>

\* enqueue(name, payload) called by application code
EnqueueCall(name, push) ==
    /\ Registered(name) => hist.nextId <= MaxJobs
    /\ (jq.redis = "none") = (push = "none")
    /\ jq.redis = "end" => push # "ok"
    /\ \E dur \in Durations :
         LET r == Enqueue(jq, rlist, hist, name, push, dur)
         IN  /\ jq' = r.jq
             /\ rlist' = r.rlist
             /\ hist' = r.hist
             /\ ret' = r.ret
    /\ UNCHANGED <<jobs, options>>

\* _sleep(25) or the throttle sleep is over: the loop continues
PumpWake ==
    /\ \E pr \in Suspended({"sleep", "throttle"}) : Commit(PumpLoop(Resume(St, pr)))
    /\ UNCHANGED <<jobs, options, rlist, ret>>

\* redis.blpop('jobq:_all', 1) settles with the head of the list
BlpopJob ==
    /\ jq.redis = "ready"
    /\ rlist # <<>>
    /\ \E pr \in Suspended({"blpop"}) : Commit(PumpRun(Resume(St, pr), Head(rlist)))
    /\ rlist' = Tail(rlist)
    /\ UNCHANGED <<jobs, options, ret>>

\* redis.blpop settles with null (the one-second timeout on an empty list) or rejects
\* (the client was closed, the store answered with an error): job stays null, _sleep(25)
BlpopNone ==
    /\ jq.redis = "ready" => rlist = <<>>
    /\ \E pr \in Suspended({"blpop"}) : Commit(Park(Resume(St, pr), "sleep", NoJob))
    /\ UNCHANGED <<jobs, options, rlist, ret>>

\* await def.middleware(...) settles
MiddlewareSettle(out) ==
    /\ \E pr \in Suspended({"middleware"}) :
         /\ out \in jobs[pr.job.name].mwOut
         /\ Commit(IF out = "ok" THEN PumpExecute(Resume(St, pr), pr.job)
                                 ELSE PumpCatch(Resume(St, pr)))
    /\ UNCHANGED <<jobs, options, rlist, ret>>

\* await def.execute(...) settles
ExecuteSettle(out) ==
    /\ \E pr \in Suspended({"execute"}) :
         /\ out \in jobs[pr.job.name].exOut
         /\ Commit(IF out = "ok" THEN PumpDone(Resume(St, pr), pr.job)
                                 ELSE PumpCatch(Resume(St, pr)))
    /\ UNCHANGED <<jobs, options, rlist, ret>>

\* await eventServer.publish('zapi:jobqueue:completed', ...) settles; a rejection is
\* caught and logged (lines 358-360), so both outcomes continue alike
BroadcastSettle ==
    /\ \E pr \in Suspended({"broadcast"}) : Commit(PumpAfter(Resume(St, pr)))
    /\ UNCHANGED <<jobs, options, rlist, ret>>

\* another worker of the cluster pushes a record on the shared list; when its name is
\* registered here too, the record is on the list what this worker's enqueue puts there
ForeignPush(name) ==
    /\ name \notin DOMAIN jobs
    /\ hist.nextId <= MaxJobs
    /\ rlist' = Append(rlist, [id |-> hist.nextId, name |-> name])
    /\ hist' = [hist EXCEPT !.nextId = @ + 1]
    /\ UNCHANGED <<jobs, options, jq, ret>>

\* another worker's pump pops the head of the shared list
ForeignPop ==
    /\ rlist # <<>>
    /\ rlist' = Tail(rlist)
    /\ hist' = [hist EXCEPT !.popLog = Append(@, Head(rlist).id)]
    /\ UNCHANGED <<jobs, options, jq, ret>>

InitJobsWith(useredis, broadcasts) ==
    /\ jobs \in Registries
    /\ \E d \in Deployments, b \in broadcasts, c \in 1..MaxPumps :
         options = [throttlecount |-> ThrottleCount, useredis |-> useredis, jobworkerinstances |-> c,
                    broadcast |-> b, leaderOnly |-> d.leaderOnly, workerIndex |-> d.workerIndex]
    /\ jq = InitJq(useredis)
    /\ rlist = <<>>
    /\ hist = InitHist
    /\ ret = NoCall
    /\ EventsIdle
    /\ InfraIdle

\* useredis = false: the per-process in-memory queue
InitJobs == InitJobsWith(FALSE, BOOLEAN)

\* useredis = true and a client was obtained in init(); broadcast as the example
\* application configures it together with useredis
InitJobsRemote == InitJobsWith(TRUE, {TRUE})

PumpNext ==
    \/ PumpWake
    \/ \E out \in {"ok", "throw"} : MiddlewareSettle(out)
    \/ \E out \in {"ok", "throw"} : ExecuteSettle(out)
    \/ BroadcastSettle

NextJobs ==
    /\ \/ Start
       \/ Stop
       \/ \E n \in CallNames : EnqueueCall(n, "none")
       \/ PumpNext
    /\ UNCHANGED <<evVars, infraVars>>

NextJobsRemote ==
    /\ \/ Start
       \/ Stop
       \/ \E n \in CallNames, push \in {"ok", "throws", "rejects"} : EnqueueCall(n, push)
       \/ PumpNext
       \/ BlpopJob
       \/ BlpopNone
       \/ \E n \in CallNames : ForeignPush(n)
       \/ ForeignPop
    /\ UNCHANGED <<evVars, infraVars>>

SpecJobs == InitJobs /\ [][NextJobs]_vars

SpecJobsRemote == InitJobsRemote /\ [][NextJobsRemote]_vars

\* What callers pass to registerJob: a name (possibly empty) and a definition whose
\* execute is a function or is missing
RegisterNames == {"job", ""}

RegisterDefs == {[execute |-> "function", body |-> PlainDef],
                 [execute |-> "function", body |-> MiddlewareDef],
                 [execute |-> "undefined", body |-> MiddlewareDef]}

\* Variant: a name already registered keeps its definition
RegisterKeepsFirst(js, name, def) ==
    IF name = "" \/ def.execute # "function"
    THEN [jobs |-> js, threw |-> TRUE]
    ELSE [jobs |-> IF name \in DOMAIN js THEN js
                   ELSE [n \in DOMAIN js \cup {name} |-> IF n = name THEN def.body ELSE js[n]],
          threw |-> FALSE]

\* registerJob(name, def), lines 168-175: the registry afterwards and whether it threw
RegisterJobResult(js, name, def) ==
    IF name = "" \/ def.execute # "function"
    THEN [jobs |-> js, threw |-> TRUE]
    ELSE [jobs |-> [n \in DOMAIN js \cup {name} |-> IF n = name THEN def.body ELSE js[n]],
          threw |-> FALSE]

\* a caller calls registerJob(name, def)
RegisterJob(name, def) ==
    /\ LET r == RegisterJobResult(jobs, name, def)
       IN  /\ jobs' = r.jobs
           /\ ret' = [op |-> "registerJob", threw |-> r.threw, id |-> 0,
                      name |-> name, def |-> def]
    /\ UNCHANGED <<options, jq, rlist, hist>>

\* One in-memory queue with one pump per start(), no completion broadcast
InitRegister ==
    /\ InitJobsWith(FALSE, {FALSE})
    /\ options.jobworkerinstances = 1
    /\ ~options.leaderOnly

NextRegister ==
    /\ \/ (~jq.running /\ Start)
       \/ EnqueueCall("job", "none")
       \/ PumpWake
       \/ \E out \in {"ok", "throw"} : MiddlewareSettle(out)
       \/ \E out \in {"ok", "throw"} : ExecuteSettle(out)
       \/ \E n \in RegisterNames, d \in RegisterDefs : RegisterJob(n, d)
    /\ UNCHANGED <<evVars, infraVars>>

SpecRegister == InitRegister /\ [][NextRegister]_vars

\* The queue's own store client (createCache(cfg).raw()): lazyConnect, retried for ever,
\* maxRetriesPerRequest: null. While the store is unreachable a command waits in the
\* client's offline queue and its promise does not settle.

\* stop() with the store client: quit() is a command of the same client, so it waits
\* behind a blpop that is in the offline queue; it closes the client only when the
\* store is reachable or nothing is queued
StopStore ==
    IF ~storeUp /\ Suspended({"blpop"}) # {}
    THEN /\ \E dur \in Durations :
              LET s1 == [jq EXCEPT !.running = FALSE]
              IN  jq' = IF s1.throttleActive THEN ThrottleEnd(s1, dur) ELSE s1
         /\ UNCHANGED <<jobs, options, rlist, hist, ret>>
    ELSE Stop

\* blpop answered by the store with the head of the list
BlpopJobStore == storeUp /\ BlpopJob

\* blpop answered with null after its one-second timeout (the store is reachable), or
\* rejected because the client was closed
BlpopNoneStore == (storeUp \/ jq.redis = "end") /\ BlpopNone

\* enqueue('job'); the rpush reaches the list only when the store is reachable
EnqueueStore ==
    \E push \in {"none", "ok", "rejects"} : (push = "ok" => storeUp) /\ EnqueueCall("job", push)

\* One queue, in memory or on the store, the store reachable or not for the whole run
InitPumpExit ==
    /\ jobs = [job |-> PlainDef]
    /\ \E u \in BOOLEAN, c \in 1..MaxPumps :
         /\ options = [throttlecount |-> ThrottleCount, useredis |-> u, jobworkerinstances |-> c,
                       broadcast |-> u, leaderOnly |-> FALSE, workerIndex |-> 0]
         /\ jq = InitJq(u)
    /\ rlist = <<>>
    /\ hist = InitHist
    /\ ret = NoCall
    /\ InitEvents
    /\ storeUp \in BOOLEAN
    /\ boot = NoBoot
    /\ InfraIdle

PumpStep ==
    \/ PumpNext
    \/ BlpopJobStore
    \/ BlpopNoneStore

NextPumpExit ==
    /\ \/ Start
       \/ StopStore
       \/ EnqueueStore
       \/ PumpStep
    /\ UNCHANGED <<evVars, infraVars>>

\* Every await of a pump that can settle does settle: timers fire, the job's middleware
\* and execute return, the broadcast returns, the store answers when it is reachable
SpecPumpExit ==
    /\ InitPumpExit
    /\ [][NextPumpExit]_vars
    /\ WF_vars(PumpStep /\ UNCHANGED <<evVars, infraVars>>)

\* C27: after stop() every pump loop eventually exits (unless start() is called again):
\* a pump at the blocking pop re-checks the running flag after the pop's bounded wait,
\* a pump polling the in-memory queue at its next iteration
PumpsExit == (~jq.running) ~> (jq.running \/ jq.pumps = EmptyBag)

\* The same with the store reachable, or with the in-memory queue
PumpsExitStoreUp == (~jq.running /\ (storeUp \/ jq.redis = "none")) ~> (jq.running \/ jq.pumps = EmptyBag)

\* enqueue('job', payload) on a reachable store: the push reaches the list, or building
\* the record's JSON throws and the job goes to the in-memory queue
EnqueueOrFallBack ==
    \E push \in {"none", "ok", "throws"} : EnqueueCall("job", push)

\* One server, in memory or on a reachable store, that is started and never stopped
InitExecuted == InitPumpExit /\ storeUp

NextExecuted ==
    /\ \/ Start
       \/ EnqueueOrFallBack
       \/ PumpStep
    /\ UNCHANGED <<evVars, infraVars>>

\* Every await of a pump settles: timers fire, execute returns, the store answers
SpecExecuted ==
    /\ InitExecuted
    /\ [][NextExecuted]_vars
    /\ WF_vars(PumpStep /\ UNCHANGED <<evVars, infraVars>>)

----------------------------------------------------------------------------
(* EventServer: specification *)

JobsIdle ==
    /\ jobs = [job |-> PlainDef]
    /\ options = [throttlecount |-> ThrottleCount, useredis |-> FALSE, jobworkerinstances |-> 1,
                  broadcast |-> FALSE, leaderOnly |-> FALSE, workerIndex |-> 0]
    /\ jq = InitJq(FALSE)
    /\ rlist = <<>>
    /\ hist = InitHist
    /\ ret = NoCall

InitEventServer == InitEvents /\ storeUp \in BOOLEAN /\ boot = NoBoot /\ JobsIdle /\ InfraIdle

NextEventServer ==
    /\ \/ \E t \in Topics, th \in BOOLEAN : Subscribe(t, th)
       \/ \E k \in AdapterKinds : RegisterAdapter(k)
       \/ \E ev \in EventNames : Publish(ev)
       \/ \E i \in 1..MaxPubs : PublishResume(i)
       \/ StartEvents
       \/ DrainResume
       \/ StoreFlip
    /\ UNCHANGED <<jobVars, infraVars>>

SpecEvents == InitEventServer /\ [][NextEventServer]_vars

\* An EventServer with application adapters whose publish fails, next to the echo adapter
InitAdapters == InitEvents /\ storeUp = TRUE /\ boot = NoBoot /\ JobsIdle /\ InfraIdle

NextAdapters ==
    /\ \/ Subscribe(TopicA, FALSE)
       \/ \E k \in FailingKinds \cup {"echo"} : RegisterAdapter(k)
       \/ Publish(TopicA)
       \/ \E i \in 1..MaxPubs : PublishResume(i)
       \/ StartEvents
       \/ DrainResume
    /\ UNCHANGED <<jobVars, infraVars>>

SpecAdapters == InitAdapters /\ [][NextAdapters]_vars

\* Transport adapters an application registers (registerAdapter accepts any object with a
\* publish function): their publish returns a promise that settles when their transport
\* is done with the envelope, at a time of its own for each envelope
TransportKinds == {"ws", "app"}

\* An EventServer with application transports, and publish calls that overlap
InitOrder == InitAdapters

NextOrder ==
    /\ \/ \E t \in Topics : Subscribe(t, FALSE)
       \/ \E k \in TransportKinds : RegisterAdapter(k)
       \/ \E ev \in EventNames : Publish(ev)
       \/ \E i \in 1..MaxPubs : PublishResume(i)
       \/ StartEvents
       \/ DrainResume
    /\ UNCHANGED <<jobVars, infraVars>>

SpecOrder == InitOrder /\ [][NextOrder]_vars

\* publish(event, payload) before start(), lines 47-73, by a caller whose call is not
\* followed further: the envelope is buffered and the call returns. The envelopes
\* buffered this way are numbered after the calls that are followed
PublishEarly(event) ==
    /\ ~es.started
    /\ Len(es.buffer) < MaxBuffered
    /\ ResolveHealth(es) # "missing"
    /\ es' = [es EXCEPT !.buffer = Append(@, [id |-> MaxPubs + Len(es.buffer) + 1,
                                              event |-> event])]
    /\ UNCHANGED <<subs, pubs, drain, storeUp, boot, seen>>

\* An EventServer with envelopes buffered before start() and publish calls made while
\* start() drains them
NextDrain ==
    /\ \/ Subscribe(TopicA, FALSE)
       \/ \E k \in {"rejects", "echo"} : RegisterAdapter(k)
       \/ PublishEarly(TopicA)
       \/ (es.started /\ Publish(TopicA))
       \/ \E i \in 1..MaxPubs : PublishResume(i)
       \/ StartEvents
       \/ DrainResume
    /\ UNCHANGED <<jobVars, infraVars>>

SpecDrain == InitAdapters /\ [][NextDrain]_vars

\* setService(name, instance)
SetService(name) ==
    /\ name \notin services
    /\ services' = services \cup {name}
    /\ UNCHANGED <<jobVars, evVars, dedupe, flags, bus, obs, cluster, hb, metrics>>

\* deleteService(name)
DeleteService(name) ==
    /\ name \in services
    /\ services' = services \ {name}
    /\ UNCHANGED <<jobVars, evVars, dedupe, flags, bus, obs, cluster, hb, metrics>>

\* An EventServer constructed with or without the registry's resolveService, the
\* registry with or without a HealthService
InitHealth ==
    /\ \E r \in BOOLEAN : es = [InitEs EXCEPT !.resolveService = r]
    /\ subs = <<>> /\ seen = <<>>
    /\ pubs = [i \in 1..MaxPubs |-> NoPub]
    /\ drain = NoDrain
    /\ storeUp = TRUE
    /\ boot = NoBoot
    /\ JobsIdle
    /\ dedupe = [w \in Workers |-> InitStates]
    /\ flags = [w \in Workers |-> InitFlags]
    /\ bus = NoBus
    /\ obs = InitObs
    /\ services \in {{"EventServer"}, {"EventServer", "HealthService"}}
    /\ cluster = NoCluster
    /\ hb = NoHb
    /\ metrics = NoMetrics

NextHealth ==
    \/ (Subscribe(TopicA, FALSE) /\ UNCHANGED <<jobVars, infraVars>>)
    \/ (RegisterAdapter("echo") /\ UNCHANGED <<jobVars, infraVars>>)
    \/ (Publish(TopicA) /\ UNCHANGED <<jobVars, infraVars>>)
    \/ \E i \in 1..MaxPubs : PublishResume(i) /\ UNCHANGED <<jobVars, infraVars>>
    \/ (StartEvents /\ UNCHANGED <<jobVars, infraVars>>)
    \/ (DrainResume /\ UNCHANGED <<jobVars, infraVars>>)
    \/ SetService("HealthService")
    \/ DeleteService("HealthService")

SpecHealth == InitHealth /\ [][NextHealth]_vars

----------------------------------------------------------------------------
(* OutageDeduper and InfraStatus: specification *)

\* the leader's process calls down(key)
DownCall(key) ==
    /\ Len(obs.downs[key]) < MaxRow
    /\ LET r == OutageDown(dedupe[Leader], key)
       IN  /\ dedupe' = [dedupe EXCEPT ![Leader] = r.states]
           /\ obs' = [obs EXCEPT !.downs[key] = Append(@, r.emitted),
                                 !.ups[key] = <<>>,
                                 !.wasDown[key] = TRUE]
    /\ UNCHANGED <<flags, bus, services, cluster, hb, metrics>>

\* the leader's process calls up(key)
UpCall(key) ==
    /\ Len(obs.ups[key]) < MaxRow
    /\ LET r == OutageUp(dedupe[Leader], key)
       IN  /\ dedupe' = [dedupe EXCEPT ![Leader] = r.states]
           /\ obs' = [obs EXCEPT !.ups[key] = Append(@, r.emitted),
                                 !.downs[key] = <<>>]
    /\ UNCHANGED <<flags, bus, services, cluster, hb, metrics>>

\* the leader's process calls InfraStatus.set(name, val); no listener is attached
SetCall(name, val) ==
    /\ ~bus.created
    /\ LET r == InfraSet(flags[Leader], name, val)
       IN  /\ flags' = [flags EXCEPT ![Leader] = r.flags]
           /\ obs' = [obs EXCEPT !.set = [op |-> "set", name |-> name, val |-> val,
                                          before |-> flags[Leader], after |-> r.flags,
                                          event |-> r.event]]
    /\ UNCHANGED <<dedupe, bus, services, cluster, hb, metrics>>

InitOutage == InfraIdle /\ EventsIdle /\ JobsIdle

NextOutage ==
    /\ \/ \E k \in Keys : DownCall(k)
       \/ \E k \in Keys : UpCall(k)
       \/ \E n \in FlagNames, v \in JsValues : SetCall(n, v)
    /\ UNCHANGED <<jobVars, evVars>>

SpecOutage == InitOutage /\ [][NextOutage]_vars

----------------------------------------------------------------------------
(* Connection signals: attachQuiet of RedisCache and of RedisEventService *)

\* The store connections of worker w: every worker creates the cache client; the leader's
\* RedisEventService duplicates it (cfg.redis && leaderOnly)
Conns(w) == IF w = Leader THEN {"cache", "dup"} ELSE {"cache"}

\* The attachQuiet listeners on a connection, in the order they were attached:
\* createCache attaches under 'redis:cache', cache.duplicate() under 'redis:cache:dup',
\* and RedisEventService.start attaches to the duplicate again under 'redis:eventbus:pub'
Attached(c) ==
    IF c = "cache"
    THEN << [from |-> "RedisCache", key |-> "redis:cache"] >>
    ELSE << [from |-> "RedisCache", key |-> "redis:cache:dup"],
            [from |-> "RedisEventService", key |-> "redis:eventbus:pub"] >>

\* the publish of 'zapi:infra:redis:<phase>' by worker w is counted
Announce(a, w, phase) ==
    IF phase = "down"
    THEN [a EXCEPT !.down = @ + 1, !.by = @ \cup {w}]
    ELSE [a EXCEPT !.up = @ + 1, !.by = @ \cup {w}]

\* Variant: the flag is set only when the transition is announced
CacheListenerSetsWhenAnnounced(st, w, key, signal) ==
    IF signal = "error"
    THEN LET r == OutageDown(st.states, key)
         IN  [states    |-> r.states,
              flags     |-> IF r.emitted THEN InfraSet(st.flags, "redisUp", "false").flags ELSE st.flags,
              announced |-> IF r.emitted THEN Announce(st.announced, w, "down") ELSE st.announced]
    ELSE IF signal = "end"
         THEN [st EXCEPT !.flags = InfraSet(@, "redisUp", "false").flags]
         ELSE LET r == OutageUp(st.states, key)
              IN  [states    |-> r.states,
                   flags     |-> IF r.emitted THEN InfraSet(st.flags, "redisUp", "true").flags ELSE st.flags,
                   announced |-> IF r.emitted THEN Announce(st.announced, w, "up") ELSE st.announced]

\* RedisCache attachQuiet, lines 72-76 ('error'), 77-82 ('connect', 'ready') and 83 ('end'):
\* st is [states, flags, announced] of worker w
CacheListener(st, w, key, signal) ==
    IF signal = "error"
    THEN LET r == OutageDown(st.states, key)
         IN  [states    |-> r.states,
              flags     |-> InfraSet(st.flags, "redisUp", "false").flags,
              announced |-> IF r.emitted THEN Announce(st.announced, w, "down") ELSE st.announced]
    ELSE IF signal = "end"
         THEN [st EXCEPT !.flags = InfraSet(@, "redisUp", "false").flags]
         ELSE LET r == OutageUp(st.states, key)
              IN  [states    |-> r.states,
                   flags     |-> InfraSet(st.flags, "redisUp", "true").flags,
                   announced |-> IF r.emitted THEN Announce(st.announced, w, "up") ELSE st.announced]

\* RedisEventService attachQuiet, lines 11 ('error') and 12 ('ready'): only the leader
\* publishes; 'connect' has no listener
EventBusListener(st, w, key, signal) ==
    IF signal = "error"
    THEN LET r == OutageDown(st.states, key)
         IN  [st EXCEPT !.states = r.states,
                        !.announced = IF r.emitted /\ w = Leader
                                      THEN Announce(@, w, "down") ELSE @]
    ELSE IF signal = "ready"
         THEN LET r == OutageUp(st.states, key)
              IN  [st EXCEPT !.states = r.states,
                             !.announced = IF r.emitted /\ w = Leader
                                           THEN Announce(@, w, "up") ELSE @]
         ELSE st

RECURSIVE RunListeners(_, _, _, _)
\* the client emits signal: its listeners run in the order they were attached
RunListeners(st, w, ls, signal) ==
    IF ls = <<>> THEN st
    ELSE LET l == Head(ls)
         IN  RunListeners(IF l.from = "RedisCache"
                          THEN CacheListener(st, w, l.key, signal)
                          ELSE EventBusListener(st, w, l.key, signal),
                          w, Tail(ls), signal)

\* connection c of worker w emits 'error' (while the store is unreachable), or 'connect'
\* or 'ready' (while it is reachable)
ConnSignal(w, c, signal) ==
    /\ ~bus.created
    /\ (signal = "error") = ~storeUp
    /\ LET r == RunListeners([states |-> dedupe[w], flags |-> flags[w], announced |-> obs.announced],
                             w, Attached(c), signal)
       IN  /\ dedupe' = [dedupe EXCEPT ![w] = r.states]
           /\ flags' = [flags EXCEPT ![w] = r.flags]
           /\ obs' = [obs EXCEPT !.announced = r.announced]
    /\ UNCHANGED <<bus, services, cluster, hb, metrics, storeUp>>

\* the store becomes unreachable: an outage episode begins
StoreDown ==
    /\ storeUp
    /\ storeUp' = FALSE
    /\ obs' = [obs EXCEPT !.announced = [down |-> 0, up |-> 0, by |-> {}]]
    /\ UNCHANGED <<dedupe, flags, bus, services, cluster, hb, metrics>>

\* the store is reachable again
StoreUp ==
    /\ ~storeUp
    /\ storeUp' = TRUE
    /\ UNCHANGED <<dedupe, flags, bus, services, cluster, hb, metrics, obs>>

InitCluster ==
    /\ InfraIdle
    /\ InitEvents /\ storeUp = TRUE /\ boot = NoBoot
    /\ JobsIdle

NextCluster ==
    /\ \/ \E w \in Workers : \E c \in Conns(w) : \E sg \in {"error", "connect", "ready"} :
             ConnSignal(w, c, sg)
       \/ StoreDown
       \/ StoreUp
    /\ UNCHANGED <<jobVars, es, subs, pubs, drain, boot, seen>>

SpecCluster == InitCluster /\ [][NextCluster]_vars

\* The signals a store connection emits that attachQuiet listens to
Signals == {"error", "connect", "ready", "end"}

\* connection c of the leader's process emits signal: 'error' while the store is
\* unreachable, 'connect' or 'ready' while it is reachable, 'end' when the client is closed.
\* obs.set keeps the signal (op), the connection (name), whether one of its listeners
\* announced the transition (val), and the flags before and after
LeaderSignal(c, signal) ==
    /\ ~bus.created
    /\ signal # "end" => ((signal = "error") = ~storeUp)
    /\ LET r == RunListeners([states |-> dedupe[Leader], flags |-> flags[Leader],
                              announced |-> obs.announced],
                             Leader, Attached(c), signal)
       IN  /\ dedupe' = [dedupe EXCEPT ![Leader] = r.states]
           /\ flags' = [flags EXCEPT ![Leader] = r.flags]
           /\ obs' = [obs EXCEPT !.announced = r.announced,
                                 !.set = [op |-> signal, name |-> c,
                                          val |-> FromBool(r.announced # obs.announced),
                                          before |-> flags[Leader], after |-> r.flags,
                                          event |-> <<>>]]
    /\ UNCHANGED <<bus, services, cluster, hb, metrics, storeUp>>

NextSignals ==
    /\ \/ \E c \in Conns(Leader), sg \in Signals : LeaderSignal(c, sg)
       \/ StoreDown
       \/ StoreUp
    /\ UNCHANGED <<jobVars, es, subs, pubs, drain, boot, seen>>

SpecSignals == InitCluster /\ [][NextSignals]_vars

\* C28: after any sequence of connection signals on the store connections of a process,
\* its redisUp flag is the state implied by the most recent signal: true after 'connect'
\* or 'ready', false after 'error' or 'end', announced or not
FlagFollowsLastSignal ==
    obs.set.op \in Signals =>
        flags[Leader]["redisUp"] = FromBool(obs.set.op \in {"connect", "ready"})

\* a signal whose announcement was suppressed changed the flag
SuppressedSignalSetFlag ==
    /\ obs.set.op \in {"connect", "ready", "error"}
    /\ obs.set.val = "false"
    /\ obs.set.before["redisUp"] # obs.set.after["redisUp"]
    /\ flags[Leader] = obs.set.after

----------------------------------------------------------------------------
(* Worker boot: runWorkerInline and RedisEventService.start *)

\* The event name of the leader's announcements ('zapi:sys:boot:start' and the like)
BootEnv == [id |-> 0, event |-> TopicZapiA]

\* lines 188-192: new EventServer, new SystemEventService, await eventServer.start(),
\* await sysAdapter.start() (which registers the echo adapter when localEcho is on)
BootEventServer ==
    /\ boot.pc = "construct"
    /\ LET e == [es EXCEPT !.started = TRUE, !.buffer = <<>>]
           r == DrainLoop(e, seen, es.buffer)
       IN  /\ es' = [e EXCEPT !.adapters = IF boot.localEcho THEN Append(@, "echo") ELSE @]
           /\ seen' = r.seen
           /\ drain' = r.co
    /\ boot' = [boot EXCEPT !.pc = "announce"]
    /\ UNCHANGED <<subs, pubs, storeUp>>

\* lines 225, 235, 253: if (leaderOnly) await eventServer.publish('zapi:sys:...')
BootAnnounce ==
    /\ boot.pc = "announce"
    /\ IF boot.leader
       THEN LET r == PublishRun(es, seen, BootEnv)
            IN  /\ es' = r.es
                /\ seen' = r.seen
                /\ boot' = [boot EXCEPT !.pc = "announcing", !.call = r.co]
       ELSE /\ boot' = [boot EXCEPT !.pc = "transport"]
            /\ UNCHANGED <<es, seen>>
    /\ UNCHANGED <<subs, pubs, drain, storeUp>>

\* the adapter awaited by the boot sequence's publish settles
BootCallResume ==
    /\ boot.call.pc = "await"
    /\ AdapterCanSettle(es.adapters[boot.call.ad])
    /\ LET r == PublishContinue(es, seen, boot.call)
       IN  seen' = r.seen /\ boot' = [boot EXCEPT !.call = r.co]
    /\ UNCHANGED <<es, subs, pubs, drain, storeUp>>

\* the awaited announcement has returned
BootAnnounced ==
    /\ boot.pc = "announcing"
    /\ boot.call.pc = "returned"
    /\ boot' = [boot EXCEPT !.pc = "transport", !.call = NoPub]
    /\ UNCHANGED <<es, subs, pubs, drain, storeUp, seen>>

\* WorkerServer lines 403-407 and RedisEventService.start lines 27-51:
\* if (cfg.redis && leaderOnly) await redisAdapter.start(), which duplicates the cache
\* client, registers the adapter and then awaits this.sub.psubscribe('zapi:*')
BootTransport ==
    /\ boot.pc = "transport"
    /\ IF boot.redis /\ boot.leader
       THEN /\ es' = [es EXCEPT !.adapters = Append(@, "redis")]
            /\ boot' = [boot EXCEPT !.pc = "psubscribe"]
       ELSE /\ boot' = [boot EXCEPT !.pc = "listen"]
            /\ es' = es
    /\ UNCHANGED <<subs, pubs, drain, storeUp, seen>>

\* Config (part_003, lines 287-292) exports these names; RedisEventService.js line 7
\* imports getServerName from it
ConfigExports == {"loadConfig", "getConfig", "setConfig", "deepMerge", "appDirCandidates"}

\* RedisEventService.start lines 51-65: the psubscribe command is answered once the
\* store is reachable (the client is created with maxRetriesPerRequest: null, so the
\* command stays queued until then). Line 53 then calls getServerName(): the name is not
\* exported by Config, the call throws a TypeError, start() rejects before the pmessage
\* listener of line 55 is attached, and runWorkerInline, which awaits it, rejects
PsubscribeSettle ==
    /\ boot.pc = "psubscribe"
    /\ storeUp
    /\ boot' = IF "getServerName" \in ConfigExports
               THEN [boot EXCEPT !.pc = "listen", !.pmessage = TRUE]
               ELSE [boot EXCEPT !.pc = "failed"]
    /\ UNCHANGED <<es, subs, pubs, drain, storeUp, seen>>

\* lines 410-414: app.listen(httpPort, callback); the callback publishes
\* 'zapi:sys:http:ready' on the leader
BootListen ==
    /\ boot.pc = "listen"
    /\ IF boot.leader
       THEN LET r == PublishRun(es, seen, BootEnv)
            IN  /\ es' = r.es
                /\ seen' = r.seen
                /\ boot' = [boot EXCEPT !.pc = "listening", !.call = r.co]
       ELSE /\ boot' = [boot EXCEPT !.pc = "listening"]
            /\ UNCHANGED <<es, seen>>
    /\ UNCHANGED <<subs, pubs, drain, storeUp>>

InitBoot ==
    /\ InitEvents
    /\ storeUp \in BOOLEAN
    /\ \E l, r, le \in BOOLEAN :
          boot = [pc |-> "construct", leader |-> l, redis |-> r, localEcho |-> le, call |-> NoPub,
                  pmessage |-> FALSE]
    /\ JobsIdle
    /\ InfraIdle

\* the steps of the boot sequence
BootStep ==
    \/ BootEventServer
    \/ BootAnnounce
    \/ BootAnnounced
    \/ BootTransport
    \/ PsubscribeSettle
    \/ BootListen

NextBoot ==
    /\ \/ BootEventServer
       \/ BootAnnounce
       \/ BootAnnounced
       \/ BootTransport
       \/ PsubscribeSettle
       \/ BootListen
       \/ BootCallResume
       \/ \E ev \in EventNames : es.started /\ Publish(ev)
       \/ \E i \in 1..MaxPubs : PublishResume(i)
       \/ StoreFlip
    /\ UNCHANGED <<jobVars, infraVars>>

\* The event loop runs every continuation that is ready; the store owes nothing
SpecBoot ==
    /\ InitBoot
    /\ [][NextBoot]_vars
    /\ WF_vars(BootStep /\ UNCHANGED <<jobVars, infraVars>>)
    /\ WF_vars(BootCallResume /\ UNCHANGED <<jobVars, infraVars>>)
    /\ \A i \in 1..MaxPubs : WF_vars(PublishResume(i) /\ UNCHANGED <<jobVars, infraVars>>)

----------------------------------------------------------------------------
(* RedisEventService: messages arriving from the store *)

\* The identity an envelope header carries: pid, workerIndex and origin, each this
\* process's own or another's
Identities == [pid : {"self", "other"}, workerIndex : {"self", "other"}, origin : {"self", "other"}]

\* What EventServer.publish of this process stamps (EventServer.js lines 51-63)
SelfIdentity == [pid |-> "self", workerIndex |-> "self", origin |-> "self"]

\* The pattern of line 51: psubscribe('zapi:*')
ZapiPrefix == <<"z", "a", "p", "i", ":">>

\* The messages the subscriber connection can receive: the copy of publish i of this
\* process that its adapter sent to the store (id -i), and messages of other processes
Messages ==
    { [id |-> 0 - i, event |-> pubs[i].env.event, ident |-> SelfIdentity] :
          i \in {j \in 1..MaxPubs : pubs[j].pc = "returned" /\ ~pubs[j].early} }
    \cup { [id |-> 0 - (MaxPubs + 1), event |-> ev, ident |-> idn] :
          ev \in EventNames, idn \in Identities \ {SelfIdentity} }

\* the pmessage listener, lines 55-63: an envelope carrying this process's identity is
\* dropped, any other is emitted on its channel and on '*'; a throw is swallowed
PmessageListener(e, d, msg) ==
    LET env == [id |-> msg.id, event |-> msg.event]
        r1  == Emit(e, d, env.event, env)
    IN  IF msg.ident = SelfIdentity THEN d
        ELSE IF r1.threw THEN r1.seen ELSE Emit(e, r1.seen, Star, env).seen

\* Variant: the subscriber connection hands every message to the local emitter
SubEmitsUnfiltered(e, d, attached, msg) ==
    Emit(e, Emit(e, d, msg.event, [id |-> msg.id, event |-> msg.event]).seen,
         Star, [id |-> msg.id, event |-> msg.event]).seen

\* this.sub emits 'pmessage': the listener runs if start() got as far as attaching it
SubEmits(e, d, attached, msg) == IF attached THEN PmessageListener(e, d, msg) ELSE d

\* a message on a channel matching 'zapi:*' arrives from the store on this.sub
RemoteArrives(msg) ==
    /\ storeUp
    /\ boot.pc \in {"failed", "listen", "listening"}
    /\ "redis" \in {es.adapters[i] : i \in DOMAIN es.adapters}
    /\ StartsWith(msg.event, ZapiPrefix)
    /\ msg.id \notin obs.arrived
    /\ seen' = SubEmits(es, seen, boot.pmessage, msg)
    /\ obs' = [obs EXCEPT !.arrived = @ \cup {msg.id}]
    /\ UNCHANGED <<es, subs, pubs, drain, storeUp, boot, dedupe, flags, bus, services, cluster, hb, metrics>>

\* Variant: the listener republishes what it received through EventServer.publish
PmessageHandsAdapters(e, msg) ==
    IF msg.ident = SelfIdentity THEN {} ELSE {e.adapters[i] : i \in DOMAIN e.adapters}

\* the pmessage listener, lines 55-63: the adapters whose publish it invokes with the
\* envelope. It calls only EventServer.local.emit, and emit runs the listeners attached
\* to the emitter (lines 75-76 of EventServer.publish are not line 77)
PmessageHands(e, msg) == {}

\* the function of lines 55-63 applied to a message of a channel matching 'zapi:*'
PmessageRuns(msg) ==
    /\ StartsWith(msg.event, ZapiPrefix)
    /\ msg.id \notin obs.arrived
    /\ seen' = PmessageListener(es, seen, msg)
    /\ obs' = [obs EXCEPT !.arrived = @ \cup {msg.id},
                          !.handed = @ \cup {<<msg.id, k>> : k \in PmessageHands(es, msg)}]
    /\ UNCHANGED <<es, subs, pubs, drain, storeUp, boot, dedupe, flags, bus, services, cluster, hb, metrics>>

\* The listener on its own, next to an EventServer with its adapters and subscribers (in
\* the worker RedisEventService.start() fails before it attaches the listener)
InitListener == InitAdapters

NextListener ==
    /\ \/ \E t \in {TopicZapiA, Star} : Subscribe(t, FALSE) /\ UNCHANGED infraVars
       \/ (RegisterAdapter("redis") /\ UNCHANGED infraVars)
       \/ (StartEvents /\ UNCHANGED infraVars)
       \/ (DrainResume /\ UNCHANGED infraVars)
       \/ (Publish(TopicZapiA) /\ UNCHANGED infraVars)
       \/ \E i \in 1..MaxPubs : PublishResume(i) /\ UNCHANGED infraVars
       \/ \E msg \in Messages : PmessageRuns(msg)
    /\ UNCHANGED jobVars

SpecListener == InitListener /\ [][NextListener]_vars

\* the leader's worker with cfg.redis set and localEcho off
InitRemote ==
    /\ InitEvents
    /\ storeUp \in BOOLEAN
    /\ boot = [pc |-> "construct", leader |-> TRUE, redis |-> TRUE, localEcho |-> FALSE,
               call |-> NoPub, pmessage |-> FALSE]
    /\ JobsIdle
    /\ InfraIdle

NextRemote ==
    /\ \/ (BootEventServer /\ UNCHANGED infraVars)
       \/ (BootAnnounce /\ UNCHANGED infraVars)
       \/ (BootAnnounced /\ UNCHANGED infraVars)
       \/ (BootTransport /\ UNCHANGED infraVars)
       \/ (PsubscribeSettle /\ UNCHANGED infraVars)
       \/ \E t \in {TopicZapiA, Star}, th \in BOOLEAN : Subscribe(t, th) /\ UNCHANGED infraVars
       \/ \E ev \in {TopicA, TopicZapiA} : es.started /\ Publish(ev) /\ UNCHANGED infraVars
       \/ \E i \in 1..MaxPubs : PublishResume(i) /\ UNCHANGED infraVars
       \/ (StoreFlip /\ UNCHANGED infraVars)
       \/ \E msg \in Messages : RemoteArrives(msg)
    /\ UNCHANGED jobVars

SpecRemote == InitRemote /\ [][NextRemote]_vars

----------------------------------------------------------------------------
(* JobQueueServer: properties *)

QueueIds == [i \in DOMAIN jq.queue |-> jq.queue[i].id]

InMemory == jq.redis = "none"

\* number of jobs whose execute is in progress
Executing == BagCardinality([pr \in Suspended({"execute"}) |-> jq.pumps[pr]])

\* C4 (as claimed): when a remote list is configured and the push of a record fails,
\* synchronously or asynchronously, enqueue returned its id and the record is in the
\* in-memory queue (from which nothing is ever popped while a remote list is configured).
PushFailureFallsBack ==
    \A id \in hist.pushFailed : \E i \in DOMAIN jq.queue : jq.queue[i].id = id

\* C5: enqueue with a name that is not registered throws and leaves the in-memory queue,
\* the remote list, the throttle state, the statistics and the pumps as they were.
EnqueueUnregisteredThrows ==
    [][\A n \in CallNames \ DOMAIN jobs :
         EnqueueCall(n, "none") => (ret'.threw /\ jq' = jq /\ rlist' = rlist /\ hist' = hist)]_vars

EnqueueUnregisteredSeen == ret.op = "enqueue" /\ ret.threw /\ jq.queue # <<>> /\ jq.throttleActive

\* C6: a step in which a job fails (middleware or execute throws, or the popped name has
\* no definition) while the server is running ends no pump coroutine; the pump that failed
\* is suspended again, and in in-memory mode, unless throttled, it has popped the next
\* queued job in that same step.
PumpSurvivesFailure ==
    [][(hist'.failures > hist.failures /\ jq.running) =>
         /\ BagCardinality(jq'.pumps) = BagCardinality(jq.pumps)
         /\ ~InMemory => \E pr \in BagToSet(jq'.pumps) : pr.pc = "blpop"
         /\ (InMemory /\ ~jq.throttleActive /\ jq.queue # <<>>) =>
               hist'.popLog = Append(hist.popLog, Head(jq.queue).id)]_vars

\* a later job is in progress in the only pump after every earlier job failed
FailureThenNextJob ==
    /\ hist.failures >= 1
    /\ Len(hist.popLog) = hist.failures + 1
    /\ BagCardinality(jq.pumps) = 1
    /\ Suspended({"middleware", "execute"}) # {}

\* C7 (as claimed): in in-memory mode on a running server, once throttlecount + 1 jobs
\* have been enqueued, throttleActive is true while none is consumed, and false once the
\* queue length is below throttlecount.
ThrottleFollowsBacklog ==
    (InMemory /\ jq.running /\ hist.nextId > options.throttlecount + 1) =>
        /\ hist.popLog = <<>> => jq.throttleActive
        /\ Len(jq.queue) < options.throttlecount => ~jq.throttleActive

ConcurrencyBound == Executing <= options.jobworkerinstances

\* C10: in-memory mode pops in enqueue order: the ids popped so far, followed by the ids
\* still queued, are the ids in the order their enqueue calls pushed them.
FifoOrder == InMemory => hist.popLog \o QueueIds = hist.memLog

SeveralPoppedInOrder == InMemory /\ Len(hist.popLog) >= 2 /\ jq.queue # <<>>

----------------------------------------------------------------------------
(* EventServer: properties *)

\* A topic matches an event name: '*' matches every name, 'ns:*' the names starting with
\* 'ns:', any other topic the name equal to it
Matches(topic, event) ==
    \/ topic = Star
    \/ event = topic
    \/ EndsWithStar(topic) /\ StartsWith(event, SubSeq(topic, 1, Len(topic) - 1))

\* the ids of the envelopes buffered before start(), in publish order, that match topic
BufferedMatching(topic) ==
    SelectSeq([i \in 1..MaxPubs |-> i], LAMBDA i : pubs[i].early /\ Matches(topic, pubs[i].env.event))

\* the invocations of handler h with envelopes buffered before start() that match its topic
SeenBuffered(h) ==
    SelectSeq(seen[h], LAMBDA i : pubs[i].early /\ Matches(subs[h].topic, pubs[i].env.event))

\* C1: once start() has completed, the buffer is empty and every handler subscribed before
\* start() has been invoked with the buffered envelopes matching its topic exactly once
\* each and in publish order
BufferedDeliveredOnce ==
    drain.pc = "done" =>
        /\ es.buffer = <<>>
        /\ \A h \in DOMAIN subs : subs[h].early => SeenBuffered(h) = BufferedMatching(subs[h].topic)

\* C2: in every execution in which the remote store is never reachable, every publish
\* call that waits for an adapter eventually returns to its caller
PublishReturns ==
    ([]~storeUp) => \A i \in 1..MaxPubs : (pubs[i].pc = "await") ~> (pubs[i].pc = "returned")

\* C3: in every execution in which the remote store is never reachable,
\* RedisEventService.start() completes and the boot sequence reaches app.listen
BootReachesListen == ([]~storeUp) => <>(boot.pc = "listening")

----------------------------------------------------------------------------
(* OutageDeduper and InfraStatus: properties *)

\* C11: for every key, of the down(key) calls made in a row with no up(key) between them,
\* the first returned emitted = true and every other one emitted = false, whatever was
\* called for the other keys
DownEmitsOnce ==
    \A k \in Keys : \A i \in DOMAIN obs.downs[k] : obs.downs[k][i] = (i = 1)

\* a key was reported down three times in a row while another key is up again
DownRepeated ==
    \E k, k2 \in Keys :
        /\ Len(obs.downs[k]) = MaxRow
        /\ k2 # k /\ obs.ups[k2] # <<>> /\ obs.wasDown[k2]

\* C12: for every key, the first up(key) after one or more down(key) calls returned
\* emitted = true, and every further up(key) with no down(key) between, and every up(key)
\* on a key that was never reported down, returned emitted = false
UpEmitsOnce ==
    \A k \in Keys : \A i \in DOMAIN obs.ups[k] : obs.ups[k][i] = (i = 1 /\ obs.wasDown[k])

\* up was called twice after a down for one key, and on a key never seen before
UpRepeated ==
    \E k, k2 \in Keys :
        /\ obs.wasDown[k] /\ Len(obs.ups[k]) >= 2
        /\ ~obs.wasDown[k2] /\ dedupe[Leader][k2] = "up"

\* C13: set(flag, value) emits '<flag>:up' or '<flag>:down' exactly when the boolean
\* value of the flag changes, named after the new value; a set with the value the flag
\* already has emits nothing and leaves the boolean value of every flag as it was
SetEmitsOnChange ==
    obs.set.op = "set" =>
        LET c == obs.set
            changed == ToBool(c.before[c.name]) # ToBool(c.val)
        IN  /\ changed => c.event = <<c.name, IF ToBool(c.val) THEN "up" ELSE "down">>
            /\ ~changed => c.event = <<>>
            /\ ~changed => \A f \in FlagNames : ToBool(c.after[f]) = ToBool(c.before[f])
            /\ \A f \in FlagNames \ {c.name} : c.after[f] = c.before[f]
            /\ ToBool(c.after[c.name]) = ToBool(c.val)

\* a set to the value the flag already has, made while the flag is up
SetSameValue ==
    /\ obs.set.op = "set"
    /\ ToBool(obs.set.before[obs.set.name])
    /\ ToBool(obs.set.val)

\* C14: in every outage episode of the store at most one 'zapi:infra:redis:down' and at
\* most one 'zapi:infra:redis:up' is published in the cluster, and only by the worker
\* with index 0
OneAnnouncementPerEpisode ==
    /\ obs.announced.down <= 1
    /\ obs.announced.up <= 1
    /\ obs.announced.by \subseteq {Leader}

----------------------------------------------------------------------------
(* EventServer: subscriptions, adapters, envelope *)

\* the publish calls delivered on the started server (not buffered)
Delivered == {i \in 1..MaxPubs : pubs[i].pc # "none" /\ ~pubs[i].early}

\* C15: a handler is invoked only with events its topic matches ('*': every event,
\* 'ns:*': the names starting with 'ns:', an exact topic: that name), and a handler
\* subscribed before start() is invoked with every matching event published after it
\* (unless another handler threw)
WildcardDelivery ==
    \A h \in DOMAIN subs :
        /\ \A n \in DOMAIN seen[h] : Matches(subs[h].topic, pubs[seen[h][n]].env.event)
        /\ (subs[h].early /\ \A g \in DOMAIN subs : g = h \/ ~subs[g].throws) =>
              \A i \in Delivered :
                  Matches(subs[h].topic, pubs[i].env.event) => \E n \in DOMAIN seen[h] : seen[h][n] = i

BusTopics == {"room:a", "room:b"}

\* The factories a MessageBus is constructed with: none, WorkerServer's createRedisClient,
\* or an application's that returns a client whenever it is called
Factories == {"none", "worker", "working"}

\* The identifiers declared at the module scope of WorkerServer.js, where
\* createRedisClient is defined; cache is a const of runWorkerInline (line 160)
WorkerModuleScope == {"createCache", "Infra", "MessageBus", "createRedisClient"}

\* WorkerServer.js 103-110:
\*   try { return Infra.isRedisUp() ? cache.duplicate() : null; } catch { return null; }
\* evaluating cache where it is not in scope throws, and the catch returns null
CreateRedisClient(f) ==
    IF ~ToBool(f["redisUp"]) THEN "null"
    ELSE IF "cache" \in WorkerModuleScope THEN "client" ELSE "null"

\* this._createRedisClient()
FactoryResult(kind, f) == IF kind = "worker" THEN CreateRedisClient(f) ELSE "client"

\* _attachRedisIfPossible(), lines 111-140, with the flags the factory reads
BusAttach(b, f) ==
    IF b.factory = "none" \/ b.attached THEN b
    ELSE IF FactoryResult(b.factory, f) = "null" THEN b
         ELSE [b EXCEPT !.pub = "client", !.sub = "client", !.attached = TRUE]

\* _detachRedis(), lines 145-162
BusDetach(b) ==
    IF ~b.attached THEN b
    ELSE [b EXCEPT !.pub = "null", !.sub = "null", !.attached = FALSE]

RECURSIVE BusEmit(_, _, _, _)
\* emitter.emit(topic, payload) from handler h on, for publish id: the listeners of the
\* topic run in the order they were attached, and a throw ends the emit (it is caught at
\* line 62, or at line 188 for a message from the store)
BusEmit(hs, topic, id, h) ==
    IF h > Len(hs) THEN hs
    ELSE IF hs[h].topic # topic THEN BusEmit(hs, topic, id, h + 1)
         ELSE LET hs2 == [hs EXCEPT ![h].got = Append(@, id)]
              IN  IF hs[h].throws THEN hs2 ELSE BusEmit(hs2, topic, id, h + 1)

\* new MessageBus({ prefix, createRedisClient }), lines 18-46: one attach attempt, then
\* the listeners on InfraStatus
BusCreate(factory) ==
    /\ ~bus.created
    /\ bus' = BusAttach([NoBus EXCEPT !.created = TRUE, !.factory = factory], flags[Leader])
    /\ UNCHANGED <<dedupe, flags, obs, services, cluster, hb, metrics>>

\* subscribe(topic, handler), lines 78-92
BusSubscribe(topic, throws) ==
    /\ bus.created
    /\ Len(bus.handlers) < MaxHandlers
    /\ bus' = [bus EXCEPT !.handlers = Append(@, [topic |-> topic, throws |-> throws, got |-> <<>>])]
    /\ UNCHANGED <<dedupe, flags, obs, services, cluster, hb, metrics>>

\* publish(topic, payload), lines 57-69, up to its await: the local emit, then the
\* command on _pub when attached. nh: the handlers subscribed when the call was made
BusPublish(topic) ==
    /\ bus.created
    /\ Len(bus.calls) < MaxPubs
    /\ LET id     == Len(bus.calls) + 1
           remote == bus.attached /\ bus.pub # "null"
       IN  bus' = [bus EXCEPT
                     !.handlers = BusEmit(@, topic, id, 1),
                     !.calls = Append(@, [topic |-> topic, nh |-> Len(bus.handlers),
                                          pc |-> IF remote THEN "await" ELSE "returned",
                                          remote |-> IF remote THEN "pending" ELSE "skipped",
                                          echoed |-> FALSE])]
    /\ UNCHANGED <<dedupe, flags, obs, services, cluster, hb, metrics>>

\* line 67: the command of publish call i resolves, or rejects and is caught
BusPublishSettle(i, ok) ==
    /\ i \in DOMAIN bus.calls
    /\ bus.calls[i].pc = "await"
    /\ bus' = [bus EXCEPT !.calls[i].pc = "returned",
                          !.calls[i].remote = IF ok THEN "sent" ELSE "failed"]
    /\ UNCHANGED <<dedupe, flags, obs, services, cluster, hb, metrics>>

\* _onRedisPMessage, lines 183-189: the copy of publish i comes back on _sub
BusPMessage(i) ==
    /\ i \in DOMAIN bus.calls
    /\ bus.attached
    /\ bus.calls[i].remote = "sent" /\ ~bus.calls[i].echoed
    /\ bus' = [bus EXCEPT !.handlers = BusEmit(@, bus.calls[i].topic, i, 1),
                          !.calls[i].echoed = TRUE]
    /\ UNCHANGED <<dedupe, flags, obs, services, cluster, hb, metrics>>

\* Infra.set('redisUp', val) in the worker's process, with the listeners the bus attached
\* at lines 41-42
BusInfraSet(val) ==
    /\ LET r == InfraSet(flags[Leader], "redisUp", val)
       IN  /\ flags' = [flags EXCEPT ![Leader] = r.flags]
           /\ bus' = IF ~bus.created \/ r.event = <<>> THEN bus
                     ELSE IF r.event[2] = "up" THEN BusAttach(bus, r.flags)
                          ELSE BusDetach(bus)
    /\ UNCHANGED <<dedupe, obs, services, cluster, hb, metrics>>

\* emitter.removeAllListeners(): no handler is attached to a topic any more
RemoveAllListeners(hs) == [h \in DOMAIN hs |-> [hs[h] EXCEPT !.topic = ""]]

\* close(), lines 99-102: _detachRedis() and emitter.removeAllListeners(); the listeners
\* the constructor attached to InfraStatus (lines 41-42) stay
BusClose ==
    /\ bus.created
    /\ bus' = [BusDetach(bus) EXCEPT !.handlers = RemoveAllListeners(@), !.closed = TRUE]
    /\ UNCHANGED <<dedupe, flags, obs, services, cluster, hb, metrics>>

InitBus == InfraIdle /\ EventsIdle /\ JobsIdle

NextBus ==
    /\ \/ \E k \in Factories : BusCreate(k)
       \/ \E t \in BusTopics, th \in BOOLEAN : BusSubscribe(t, th)
       \/ \E t \in BusTopics : BusPublish(t)
       \/ \E i \in 1..MaxPubs, ok \in BOOLEAN : BusPublishSettle(i, ok)
       \/ \E i \in 1..MaxPubs : BusPMessage(i)
       \/ \E v \in {"true", "false"} : BusInfraSet(v)
    /\ UNCHANGED <<jobVars, evVars>>

SpecBus == InitBus /\ [][NextBus]_vars

\* A bus that is used, closed, and whose process lives on
NextBusClose ==
    \/ NextBus
    \/ BusClose /\ UNCHANGED <<jobVars, evVars>>

SpecBusClose == InitBus /\ [][NextBusClose]_vars

\* ---------------------------------------------------------------------------------
\* Coordinator (src/server/Coordinator.js): forking and respawning workers
\* ---------------------------------------------------------------------------------

\* The events only the leader publishes
ClusterEvents == {"zapi:sys:heartbeat:snapshot", "zapi:sys:metrics:flush"}

\* The workers alive: in cluster.workers and not exited
Live(c) == DOMAIN c.workers \ c.lingering

\* Variant: every respawned worker gets index 0
NextIndexZero(w) == 0

\* Variant: a respawned worker gets the lowest index no listed worker has
NextIndexFirstFree(w) ==
    CHOOSE i \in 0..Cardinality(DOMAIN w) :
        /\ \A p \in DOMAIN w : w[p] # i
        /\ \A j \in 0..(i - 1) : \E p \in DOMAIN w : w[p] = j

\* Coordinator.js line 72: Object.keys(cluster.workers).length
NextIndex(w) == Cardinality(DOMAIN w)

\* _forkWorker(i), lines 91-96: cluster.fork with WORKER_INDEX = i; the fork's number
\* stands for its pid
ForkWorker(c, w, i) ==
    [c EXCEPT !.workers = [p \in DOMAIN w \cup {c.forks + 1} |->
                              IF p = c.forks + 1 THEN i ELSE w[p]],
              !.forks = @ + 1]

\* WorkerServer.js 150-151: workerIndex = getWorkerIndex(); leaderOnly = workerIndex === 0
LeaderOnly(c, p) == c.workers[p] = 0

\* Coordinator.start in the primary, lines 59-67: desired workers forked with indexes
\* 0 .. desired - 1
CoordinatorStart(desired) ==
    /\ cluster.forks = 0
    /\ cluster' = [cluster EXCEPT !.desired = desired,
                                  !.workers = [p \in 1..desired |-> p - 1],
                                  !.forks = desired]
    /\ UNCHANGED <<dedupe, flags, bus, obs, services, hb, metrics>>

\* cluster.on('exit'), lines 69-73: worker p has exited; it is already removed from
\* cluster.workers if its 'disconnect' came first, and still listed otherwise. A new
\* worker is forked with the number of listed workers as its index
WorkerExit(p, removed) ==
    /\ p \in Live(cluster)
    /\ cluster.forks < MaxForks
    /\ LET w == IF removed THEN [q \in DOMAIN cluster.workers \ {p} |-> cluster.workers[q]]
                ELSE cluster.workers
           c == [cluster EXCEPT !.lingering = IF removed THEN @ ELSE @ \cup {p}]
       IN  cluster' = ForkWorker(c, w, NextIndex(w))
    /\ UNCHANGED <<dedupe, flags, bus, obs, services, hb, metrics>>

\* the 'disconnect' of an exited worker: it leaves cluster.workers
WorkerDisconnect(p) ==
    /\ p \in cluster.lingering
    /\ cluster' = [cluster EXCEPT
                      !.workers = [q \in DOMAIN cluster.workers \ {p} |-> cluster.workers[q]],
                      !.lingering = @ \ {p}]
    /\ UNCHANGED <<dedupe, flags, bus, obs, services, hb, metrics>>

\* WorkerServer.js 332-366 and 286-291 in worker p: the snapshot timer exists and the
\* aggregated flush is armed and published only where leaderOnly holds
LeaderPublishes(p, ev) ==
    /\ p \in Live(cluster)
    /\ LeaderOnly(cluster, p)
    /\ cluster' = [cluster EXCEPT !.published = @ \cup
                      {[pid |-> p, index |-> cluster.workers[p], event |-> ev]}]
    /\ UNCHANGED <<dedupe, flags, bus, obs, services, hb, metrics>>

InitCoordinator == InfraIdle /\ EventsIdle /\ JobsIdle

NextCoordinator ==
    /\ \/ \E d \in 1..MaxWorkers : CoordinatorStart(d)
       \/ \E p \in 1..MaxForks, r \in BOOLEAN : WorkerExit(p, r)
       \/ \E p \in 1..MaxForks : WorkerDisconnect(p)
       \/ \E p \in 1..MaxForks, ev \in ClusterEvents : LeaderPublishes(p, ev)
    /\ UNCHANGED <<jobVars, evVars>>

SpecCoordinator == InitCoordinator /\ [][NextCoordinator]_vars

\* ---------------------------------------------------------------------------------
\* The leader's heartbeat aggregator (WorkerServer.js 301-368)
\* ---------------------------------------------------------------------------------

\* The `${nodeId}|${pid}` keys heartbeats arrive from
HbKeys == 1..MaxKeys

StatFields == {"uptimeSec", "rss", "heapUsed"}

\* The payloads ClusterHeartbeat builds (lines 44-55), as far as the aggregator reads them
Samples == {[uptimeSec |-> 0, rss |-> 10, heapUsed |-> 5],
            [uptimeSec |-> 1, rss |-> 20, heapUsed |-> 8],
            [uptimeSec |-> 3, rss |-> 30, heapUsed |-> 8]}

RECURSIVE SumField(_, _, _)
\* a.reduce((x, y) => x + y, 0) over the field f of the samples with keys K
SumField(st, f, K) ==
    IF K = {} THEN 0
    ELSE LET k == CHOOSE x \in K : TRUE
         IN  st[k][f] + SumField(st, f, K \ {k})

\* Variant: the mean truncated instead of rounded
StatAvgTruncated(st, f) ==
    IF DOMAIN st = {} THEN 0
    ELSE SumField(st, f, DOMAIN st) \div Cardinality(DOMAIN st)

\* line 344: a.length ? Math.round(sum / a.length) : 0; Math.round rounds halves up
StatAvg(st, f) ==
    IF DOMAIN st = {} THEN 0
    ELSE LET n == Cardinality(DOMAIN st)
         IN  (2 * SumField(st, f, DOMAIN st) + n) \div (2 * n)

\* line 345: a.length ? Math.max(...a) : 0
StatMax(st, f) ==
    IF DOMAIN st = {} THEN 0
    ELSE LET k == CHOOSE x \in DOMAIN st : \A y \in DOMAIN st : st[y][f] <= st[x][f]
         IN  st[k][f]

\* line 346: a.length ? Math.min(...a) : 0
StatMin(st, f) ==
    IF DOMAIN st = {} THEN 0
    ELSE LET k == CHOOSE x \in DOMAIN st : \A y \in DOMAIN st : st[y][f] >= st[x][f]
         IN  st[k][f]

\* onWorkerHeartbeat(evt), lines 308-320: the sample replaces the one stored for its key
OnWorkerHeartbeat(k, sample) ==
    /\ hb' = [hb EXCEPT !.state = [x \in DOMAIN hb.state \cup {k} |->
                                      IF x = k THEN sample ELSE hb.state[x]],
                        !.window = @ \cup {k}]
    /\ UNCHANGED <<dedupe, flags, bus, obs, services, cluster, metrics>>

\* the interval callback, lines 337-366: the payload is computed from Array.from(
\* hbState.values()) and published; hbState is left as it is
SnapshotTick ==
    /\ hb' = [hb EXCEPT
                 !.window = {},
                 !.snap = [taken |-> TRUE, phase |-> ~hb.snap.phase,
                           observed |-> Cardinality(DOMAIN hb.state),
                           fresh |-> Cardinality(hb.window),
                           stats |-> [f \in StatFields |->
                                         [min |-> StatMin(hb.state, f),
                                          avg |-> StatAvg(hb.state, f),
                                          max |-> StatMax(hb.state, f)]]]]
    /\ UNCHANGED <<dedupe, flags, bus, obs, services, cluster, metrics>>

InitHeartbeat == InfraIdle /\ EventsIdle /\ JobsIdle

NextHeartbeat ==
    /\ \/ \E k \in HbKeys, sample \in Samples : OnWorkerHeartbeat(k, sample)
       \/ SnapshotTick
    /\ UNCHANGED <<jobVars, evVars>>

SpecHeartbeat == InitHeartbeat /\ [][NextHeartbeat]_vars

\* ---------------------------------------------------------------------------------
\* Heartbeats over the inter-process channel
\* ---------------------------------------------------------------------------------

\* The payload of the n-th heartbeat: uptimeSec and the memory figures change from one
\* to the next
Beat(n) == IF n % 2 = 1 THEN [uptimeSec |-> 0, rss |-> 10, heapUsed |-> 5]
           ELSE [uptimeSec |-> 1, rss |-> 20, heapUsed |-> 8]

\* ClusterHeartbeat.js 57-63, sendIpc in worker p: process.send({ type: 'sys:heartbeat',
\* payload }); one host, so the key `${nodeId}|${pid}` is the pid
SendIpc(p) ==
    /\ p \in Live(cluster)
    /\ hb.ipc.sent < MaxBeats
    /\ hb' = [hb EXCEPT !.ipc.sent = @ + 1,
                        !.ipc.up = Append(@, [id |-> hb.ipc.sent + 1, from |-> p,
                                              sample |-> Beat(hb.ipc.sent + 1)])]
    /\ UNCHANGED <<dedupe, flags, bus, obs, services, cluster, metrics>>

\* Coordinator.js 102-113, the primary's 'message' handler: the heartbeat is sent to
\* every worker of cluster.workers; the send to a worker that has exited fails and is
\* swallowed
PrimaryForward ==
    /\ hb.ipc.up # <<>>
    /\ LET m == Head(hb.ipc.up)
       IN  hb' = [hb EXCEPT !.ipc.up = Tail(@),
                           !.ipc.down = [q \in 1..MaxForks |->
                                            IF q \in Live(cluster) THEN Append(@[q], m) ELSE @[q]]]
    /\ UNCHANGED <<dedupe, flags, bus, obs, services, cluster, metrics>>

\* Variant: every worker records the heartbeats it receives
IpcIngestAnyWorker(c, st, q, m) ==
    [x \in DOMAIN st \cup {m.from} |-> IF x = m.from THEN m.sample ELSE st[x]]

\* WorkerServer.js 324-328 and 308-320 in worker q: if (leaderOnly) onWorkerHeartbeat(
\* m.payload), which sets hbState[key]; st is the worker's hbState
IpcIngest(c, st, q, m) ==
    IF LeaderOnly(c, q)
    THEN [x \in DOMAIN st \cup {m.from} |-> IF x = m.from THEN m.sample ELSE st[x]]
    ELSE st

\* worker q receives the next forwarded heartbeat of its channel
WorkerReceive(q) ==
    /\ q \in Live(cluster)
    /\ hb.ipc.down[q] # <<>>
    /\ LET m == Head(hb.ipc.down[q])
           st == hb.ipc.rec[q]
           new == IpcIngest(cluster, st, q, m)
       IN  hb' = [hb EXCEPT !.ipc.down[q] = Tail(@),
                           !.ipc.rec[q] = new,
                           !.ipc.overwrites = IF new # st /\ m.from \in DOMAIN st
                                              THEN @ + 1 ELSE @]
    /\ UNCHANGED <<dedupe, flags, bus, obs, services, cluster, metrics>>

\* Workers are forked, exit and are respawned while heartbeats travel; an exited worker
\* has left cluster.workers (a send to one still listed fails and is swallowed, line 110)
NextIpc ==
    /\ \/ \E d \in 1..MaxWorkers : CoordinatorStart(d)
       \/ \E p \in 1..MaxForks : WorkerExit(p, TRUE)
       \/ \E p \in 1..MaxForks : SendIpc(p)
       \/ PrimaryForward
       \/ \E q \in 1..MaxForks : WorkerReceive(q)
    /\ UNCHANGED <<jobVars, evVars>>

SpecIpc == InitCoordinator /\ [][NextIpc]_vars

----------------------------------------------------------------------------
(* Metrics: the per-worker ingestor and the leader's debounced aggregation *)

\* A counter map with the entries of keys K, each of value v
Counters(K, v) == [keys |-> K, vals |-> [k \in MetricKeys |-> IF k \in K THEN v ELSE 0]]

\* What is published on 'sys:metrics': { key, n }, { batch } or both (key "": no key);
\* n = 0 stands for a missing or zero n
MetricEvents == { [key |-> "a", n |-> 0, batch |-> NoCounters],
                  [key |-> "b", n |-> 2, batch |-> NoCounters],
                  [key |-> "",  n |-> 0, batch |-> Counters({"a", "b"}, 2)],
                  [key |-> "a", n |-> 2, batch |-> Counters({"a"}, 0)] }

\* The snapshots other workers flush
Snapshots == { Counters({"a"}, 2), Counters({"a", "b"}, 1) }

\* Variant: the counter is set to the increment
IncOverwrites(c, key, n) ==
    [keys |-> c.keys \cup {key}, vals |-> [c.vals EXCEPT ![key] = n]]

\* inc(key, n), lines 10-12: counters.set(key, (counters.get(key) || 0) + n)
Inc(c, key, n) ==
    [keys |-> c.keys \cup {key},
     vals |-> [c.vals EXCEPT ![key] = (IF key \in c.keys THEN @ ELSE 0) + n]]

RECURSIVE IncAll(_, _, _)
\* for (const [k, v] of Object.entries(batch)) inc(k, Number(v || 0))
IncAll(c, batch, todo) ==
    IF todo = {} THEN c
    ELSE LET k == CHOOSE x \in todo : TRUE
         IN  IncAll(Inc(c, k, batch.vals[k]), batch, todo \ {k})

\* the 'sys:metrics' handler, lines 16-23; Number(evt.n || 1) is 1 for n = 0
Ingest(c, evt) ==
    LET c1 == IF evt.key # "" THEN Inc(c, evt.key, IF evt.n = 0 THEN 1 ELSE evt.n) ELSE c
    IN  IncAll(c1, evt.batch, evt.batch.keys)

\* What the event adds to key k
IngestAmount(evt, k) ==
    (IF evt.key = k THEN (IF evt.n = 0 THEN 1 ELSE evt.n) ELSE 0)
    + (IF k \in evt.batch.keys THEN evt.batch.vals[k] ELSE 0)

\* Variant: every flush received arms a timeout
OnMetricsFlushRearms(m, snap) ==
    [m EXCEPT !.aggPayload = [keys |-> @.keys \cup snap.keys,
                              vals |-> [k \in MetricKeys |->
                                          @.vals[k] + (IF k \in snap.keys THEN snap.vals[k] ELSE 0)]],
              !.aggTimer = TRUE,
              !.timers = @ + 1,
              !.recvLog = Append(@, snap)]

\* onMetricsFlush(evt), WorkerServer.js 292-299: the snapshot is added to aggPayload and
\* the timeout is armed unless one is pending
OnMetricsFlush(m, snap) ==
    [m EXCEPT !.aggPayload = [keys |-> @.keys \cup snap.keys,
                              vals |-> [k \in MetricKeys |->
                                          @.vals[k] + (IF k \in snap.keys THEN snap.vals[k] ELSE 0)]],
              !.aggTimer = TRUE,
              !.timers = IF m.aggTimer THEN @ ELSE @ + 1,
              !.recvLog = Append(@, snap)]

\* bus.publish('sys:metrics', evt) in this process: the ingestor's handler runs
MetricsEvent(evt) ==
    /\ metrics.incs < MaxEvents
    /\ metrics' = [metrics EXCEPT !.counters = Ingest(@, evt),
                                  !.incs = @ + 1,
                                  !.ingested = [k \in MetricKeys |-> @[k] + IngestAmount(evt, k)]]
    /\ UNCHANGED <<dedupe, flags, bus, obs, services, cluster, hb>>

\* the ingestor's interval, lines 26-42: nothing when counters is empty; otherwise the
\* snapshot is taken, counters is cleared and the snapshot is published on the bus, whose
\* local delivery invokes the leader's onMetricsFlush (subscribed at WorkerServer.js 334)
IngestorFlush ==
    /\ metrics.counters.keys # {}
    /\ LET snapshot == metrics.counters
           m1 == [metrics EXCEPT !.counters = NoCounters,
                                 !.flushes = @ + 1,
                                 !.flushed = [k \in MetricKeys |-> @[k] + snapshot.vals[k]]]
       IN  metrics' = IF metrics.leader THEN OnMetricsFlush(m1, snapshot) ELSE m1
    /\ UNCHANGED <<dedupe, flags, bus, obs, services, cluster, hb>>

\* the flush of another worker reaches the leader's bus
RemoteFlush(snap) ==
    /\ metrics.leader
    /\ metrics.remote < MaxFlushes
    /\ metrics' = [OnMetricsFlush(metrics, snap) EXCEPT !.remote = @ + 1]
    /\ UNCHANGED <<dedupe, flags, bus, obs, services, cluster, hb>>

\* a debounce timeout runs flushAggregated, WorkerServer.js 286-291: the payload is
\* copied, aggPayload and aggTimer are reset, the cluster flush event is published
FlushAggregated ==
    /\ metrics.timers > 0
    /\ metrics' = [metrics EXCEPT !.aggPayload = NoCounters,
                                  !.aggTimer = FALSE,
                                  !.timers = @ - 1,
                                  !.event = metrics.aggPayload,
                                  !.events = @ + 1,
                                  !.coalesced = Len(metrics.recvLog),
                                  !.recvLog = <<>>]
    /\ UNCHANGED <<dedupe, flags, bus, obs, services, cluster, hb>>

\* No raw event (a message that carries a flush)
NoEvent == [key |-> "", n |-> 0, batch |-> NoCounters]

\* The raw event the workers of the cluster publish: { key: 'a', n: 2 }
FleetEvents == { [key |-> "a", n |-> 2, batch |-> NoCounters] }

\* emitter.emit(topic, payload) on the bus of worker w: every worker's ingestor is
\* subscribed to 'sys:metrics' (WorkerServer.js 374-375, part_018 16-23), the leader's
\* onMetricsFlush to 'sys:metrics:flush' (WorkerServer.js 332-334)
FleetEmit(m, w, topic, evt, snap) ==
    IF topic = "sys:metrics"
    THEN [m EXCEPT !.fleet.counters[w] = Ingest(@, evt)]
    ELSE IF w = Leader THEN OnMetricsFlush(m, snap) ELSE m

\* MessageBus.publish, lines 57-69, on the bus of worker w: the local emit, then, on an
\* attached bus, the command to the store, which sends the message to every bus
\* pattern-subscribed to the prefix, the publisher's included
FleetPublish(m, w, topic, evt, snap) ==
    LET m1 == FleetEmit(m, w, topic, evt, snap)
    IN  IF m.fleet.attached
        THEN [m1 EXCEPT !.fleet.net = @ \o <<[to |-> Leader, topic |-> topic, evt |-> evt, snap |-> snap],
                                              [to |-> 1, topic |-> topic, evt |-> evt, snap |-> snap]>>]
        ELSE m1

\* application code in worker w calls bus.publish('sys:metrics', evt)
FleetRaw(w, evt) ==
    /\ metrics.fleet.incs < MaxIncs
    /\ metrics' = [FleetPublish(metrics, w, "sys:metrics", evt, NoCounters) EXCEPT
                      !.fleet.incs = @ + 1,
                      !.fleet.raw = [k \in MetricKeys |-> @[k] + IngestAmount(evt, k)]]
    /\ UNCHANGED <<dedupe, flags, bus, obs, services, cluster, hb>>

\* the ingestor's interval in worker w, part_018 26-42
FleetIngestorFlush(w) ==
    /\ metrics.fleet.counters[w].keys # {}
    /\ metrics' = FleetPublish([metrics EXCEPT !.fleet.counters[w] = NoCounters], w,
                               "sys:metrics:flush", NoEvent, metrics.fleet.counters[w])
    /\ UNCHANGED <<dedupe, flags, bus, obs, services, cluster, hb>>

\* _onRedisPMessage, MessageBus.js 183-189, in the worker the oldest undelivered message
\* of the store is for: the message is emitted on that worker's bus
FleetPMessage(i) ==
    /\ i \in DOMAIN metrics.fleet.net
    /\ \A j \in 1..(i - 1) : metrics.fleet.net[j].to # metrics.fleet.net[i].to
    /\ LET msg == metrics.fleet.net[i]
           m1  == [metrics EXCEPT !.fleet.net = SubSeq(@, 1, i - 1) \o SubSeq(@, i + 1, Len(@))]
       IN  metrics' = FleetEmit(m1, msg.to, msg.topic, msg.evt, msg.snap)
    /\ UNCHANGED <<dedupe, flags, bus, obs, services, cluster, hb>>

\* the leader's debounce timeout runs flushAggregated, WorkerServer.js 286-291, and the
\* cluster event 'zapi:sys:metrics:flush' is published with the payload
FleetFlushAggregated ==
    /\ metrics.timers > 0
    /\ metrics' = [metrics EXCEPT !.aggPayload = NoCounters,
                                  !.aggTimer = FALSE,
                                  !.timers = @ - 1,
                                  !.event = metrics.aggPayload,
                                  !.events = @ + 1,
                                  !.coalesced = Len(metrics.recvLog),
                                  !.recvLog = <<>>,
                                  !.fleet.out = [k \in MetricKeys |-> @[k] + metrics.aggPayload.vals[k]]]
    /\ UNCHANGED <<dedupe, flags, bus, obs, services, cluster, hb>>

InitMetrics ==
    /\ dedupe = [w \in Workers |-> InitStates]
    /\ flags = [w \in Workers |-> InitFlags]
    /\ bus = NoBus
    /\ obs = InitObs
    /\ services = {"EventServer", "HealthService"}
    /\ cluster = NoCluster
    /\ hb = NoHb
    /\ \E l \in BOOLEAN : metrics = [NoMetrics EXCEPT !.leader = l]
    /\ EventsIdle
    /\ JobsIdle

NextMetrics ==
    /\ \/ \E evt \in MetricEvents : MetricsEvent(evt)
       \/ IngestorFlush
       \/ \E snap \in Snapshots : RemoteFlush(snap)
       \/ FlushAggregated
    /\ UNCHANGED <<jobVars, evVars>>

SpecMetrics == InitMetrics /\ [][NextMetrics]_vars

\* The leader and another worker, their buses local-only (as WorkerServer's factory
\* leaves them) or remote-attached
InitFleet ==
    /\ dedupe = [w \in Workers |-> InitStates]
    /\ flags = [w \in Workers |-> InitFlags]
    /\ bus = NoBus
    /\ obs = InitObs
    /\ services = {"EventServer", "HealthService"}
    /\ cluster = NoCluster
    /\ hb = NoHb
    /\ \E a \in BOOLEAN : metrics = [NoMetrics EXCEPT !.leader = TRUE, !.fleet.attached = a]
    /\ EventsIdle
    /\ JobsIdle

NextFleet ==
    /\ \/ \E w \in Workers, evt \in FleetEvents : FleetRaw(w, evt)
       \/ \E w \in Workers : FleetIngestorFlush(w)
       \/ \E i \in DOMAIN metrics.fleet.net : FleetPMessage(i)
       \/ FleetFlushAggregated
    /\ UNCHANGED <<jobVars, evVars>>

SpecFleet == InitFleet /\ [][NextFleet]_vars

\* C17: an adapter whose publish throws or rejects does not stop publish: the call does
\* not throw, the handlers subscribed when it was made have received the envelope, and by
\* the time it returns every adapter registered when it was made has been invoked
AdapterFailureIsolated ==
    \A i \in 1..MaxPubs :
        /\ pubs[i].pc # "threw"
        /\ (pubs[i].pc \in {"await", "returned"} /\ ~pubs[i].early) =>
               /\ \A h \in 1..pubs[i].nsub :
                      \E n \in DOMAIN seen[h] : seen[h][n] = pubs[i].env.id
               /\ pubs[i].inv = SubSeq(es.adapters, 1, Len(pubs[i].inv))
        /\ (pubs[i].pc = "returned" /\ ~pubs[i].early) => Len(pubs[i].inv) >= pubs[i].nad

\* a returned publish that invoked a throwing and a rejecting adapter and then the echo
\* adapter, with a handler subscribed
FailingAdaptersPassed ==
    \E i \in 1..MaxPubs :
        /\ pubs[i].pc = "returned" /\ ~pubs[i].early
        /\ pubs[i].nsub >= 1
        /\ Len(pubs[i].inv) = 3
        /\ pubs[i].inv[1] \in FailingKinds /\ pubs[i].inv[2] \in FailingKinds
        /\ pubs[i].inv[3] = "echo"
\* C18: a publish call that resolved no Health provider, the lookup failing included,
\* does not throw, and its envelope is built with state status 'Ok'
PublishWithoutHealth ==
    \A i \in 1..MaxPubs :
        (pubs[i].pc # "none" /\ pubs[i].health # "provider") =>
            pubs[i].pc # "threw" /\ pubs[i].state = "Ok"

\* The part of C18 that holds: without a resolver the envelope is built with 'Ok'
PublishWithoutResolver ==
    \A i \in 1..MaxPubs :
        (pubs[i].pc # "none" /\ pubs[i].health = "none") =>
            pubs[i].pc # "threw" /\ pubs[i].state = "Ok"
\* ---------------------------------------------------------------------------------
\* MessageBus: local delivery and hot attach
\* ---------------------------------------------------------------------------------

\* handler h was subscribed to the topic of publish call i when the call was made
BusSubscribed(i, h) ==
    h <= bus.calls[i].nh /\ bus.handlers[h].topic = bus.calls[i].topic

BusInvoked(i, h) == \E n \in DOMAIN bus.handlers[h].got : bus.handlers[h].got[n] = i

\* no handler attached to the topic before h throws
BusNoThrowBefore(i, h) ==
    \A g \in 1..(h - 1) : bus.handlers[g].topic = bus.calls[i].topic => ~bus.handlers[g].throws

\* C19: a publish invokes every handler subscribed to its topic, whatever the remote
\* state, and does not throw
BusLocalDelivery ==
    \A i \in DOMAIN bus.calls :
        /\ bus.calls[i].pc \in {"await", "returned"}
        /\ \A h \in DOMAIN bus.handlers : BusSubscribed(i, h) => BusInvoked(i, h)

\* The part of C19 that holds: the handlers not preceded by a throwing one are invoked,
\* whatever the remote state
BusLocalDeliveryUpToThrow ==
    \A i \in DOMAIN bus.calls :
        \A h \in DOMAIN bus.handlers :
            (BusSubscribed(i, h) /\ BusNoThrowBefore(i, h)) => BusInvoked(i, h)

BusRedisUp == ToBool(flags[Leader]["redisUp"])

\* C20: when redisUp flips to up the worker's bus becomes attached with both connections
\* in place, when it flips to down the bus becomes detached, and the handlers subscribed
\* keep being invoked by local publishes
BusFollowsRedisFlag ==
    [][/\ (bus.created /\ bus.factory = "worker" /\ ~BusRedisUp /\ BusRedisUp') =>
              (bus'.attached /\ bus'.pub = "client" /\ bus'.sub = "client")
       /\ (bus.created /\ bus.factory = "worker" /\ BusRedisUp /\ ~BusRedisUp') =>
              ~bus'.attached
       /\ BusLocalDeliveryUpToThrow']_vars

\* The part of C20 that holds: a bus whose factory returns clients attaches and detaches
\* with the flag
WorkingBusFollowsRedisFlag ==
    [][/\ (bus.created /\ bus.factory = "working" /\ ~BusRedisUp /\ BusRedisUp') =>
              (bus'.attached /\ bus'.pub = "client" /\ bus'.sub = "client")
       /\ (bus.created /\ bus.factory = "working" /\ BusRedisUp /\ ~BusRedisUp') =>
              ~bus'.attached]_vars
\* C21: at most one live worker has index 0, and only a worker with index 0 has
\* published a heartbeat snapshot or a cluster metrics flush
SingleLeader ==
    /\ Cardinality({p \in Live(cluster) : cluster.workers[p] = 0}) <= 1
    /\ \A x \in cluster.published : x.index = 0

\* the leader exited, a new worker took index 0, and both have published
LeaderRespawned ==
    \E x, y \in cluster.published :
        x.pid # y.pid /\ y.pid \in Live(cluster) /\ x.pid \notin Live(cluster)
\* the step is an aggregation tick
IsTick == hb'.snap.phase # hb.snap.phase

\* C22: on each tick the stats of every field are the minimum, the mean rounded to the
\* nearest integer (halves up) and the maximum over the samples in the map, hence
\* min <= avg <= max; with an empty map all three are 0
SnapshotStats ==
    [][IsTick =>
        \A f \in StatFields :
            LET st == hb.state
                n  == Cardinality(DOMAIN st)
                r  == hb'.snap.stats[f]
            IN  IF n = 0 THEN r = [min |-> 0, avg |-> 0, max |-> 0]
                ELSE /\ \E k \in DOMAIN st : st[k][f] = r.min
                     /\ \E k \in DOMAIN st : st[k][f] = r.max
                     /\ \A k \in DOMAIN st : r.min <= st[k][f] /\ st[k][f] <= r.max
                     /\ 2 * n * r.avg - n <= 2 * SumField(st, f, DOMAIN st)
                     /\ 2 * SumField(st, f, DOMAIN st) < 2 * n * r.avg + n
                     /\ r.min <= r.avg /\ r.avg <= r.max]_vars

\* the snapshot of three samples with rss 10, 20 and 30, whose mean uptime 4/3 rounds to 1
ThreeSamplesSnapshot ==
    /\ hb.snap.taken /\ hb.snap.observed = 3
    /\ hb.snap.stats["rss"] = [min |-> 10, avg |-> 20, max |-> 30]
    /\ hb.snap.stats["uptimeSec"] = [min |-> 0, avg |-> 1, max |-> 3]

\* C23: the observed count of each snapshot is the number of distinct keys a sample was
\* received from since the previous tick
ObservedCountsWindow == hb.snap.taken => hb.snap.observed = hb.snap.fresh
\* C24: registerJob with a definition whose execute is not callable throws and leaves the
\* registry as it was; with a callable execute it succeeds, also for a registered name,
\* and the registry then holds the new definition; a job popped runs the definition
\* registered under its name at that moment
RegisterLastWriterWins ==
    /\ [](ret.op = "registerJob" =>
            IF ret.def.execute # "function"
            THEN ret.threw
            ELSE ret.name # "" => (~ret.threw /\ jobs[ret.name] = ret.def.body))
    /\ [][/\ (ret'.op = "registerJob" /\ ret'.threw) => jobs' = jobs
          /\ \A i \in 1..MaxJobs :
                hist'.defLog[i] # hist.defLog[i] => hist'.defLog[i] = jobs["job"]]_vars

\* a job ran the definition that replaced the one registered when it was enqueued
RanReplacedDefinition ==
    /\ ret.op = "registerJob" /\ ~ret.threw /\ ret.name = "job"
    /\ \E i, j \in 1..MaxJobs :
          /\ i < j
          /\ hist.defLog[i] \notin {NoDef, ret.def.body}
          /\ hist.defLog[j] = ret.def.body /\ hist.execCount[j] > 0
\* C25: no handler is invoked with an envelope published after start() was called before
\* its first invocation with an envelope buffered before start()
DrainBeforeLater ==
    \A h \in DOMAIN seen :
        \A n, m \in DOMAIN seen[h] :
            (n < m /\ seen[h][n] <= MaxPubs /\ seen[h][m] > MaxPubs) =>
                \E k \in 1..(n - 1) : seen[h][k] = seen[h][m]

\* The part of C25 that holds: the buffered envelopes reach each handler in the order
\* they were published
DrainInOrder ==
    \A h \in DOMAIN seen :
        \A n, m \in DOMAIN seen[h] :
            (n < m /\ seen[h][n] > seen[h][m] /\ seen[h][m] > MaxPubs) =>
                \E k \in 1..(n - 1) : seen[h][k] = seen[h][m]
\* the id of the message of another process
ForeignId == 0 - (MaxPubs + 1)

\* C26: once the remote adapter's start() has run with the store reachable, a message of
\* another process arriving on 'zapi:a' is emitted to the handlers subscribed to its name
\* and to the wildcard
ForeignEmitted ==
    [][(ForeignId \in obs'.arrived /\ ForeignId \notin obs.arrived) =>
          \A h \in DOMAIN subs :
              Matches(subs[h].topic, TopicZapiA) =>
                  \E n \in DOMAIN seen'[h] : seen'[h][n] = ForeignId]_vars

\* C29: in a worker's metrics ingestor, for every key the values of the published
\* snapshots plus the value held are the sum of the increments ingested; a flush leaves
\* the counter set empty and adds exactly what was held to what was published
CountersConserved ==
    /\ [](\A k \in MetricKeys :
            /\ metrics.flushed[k] + metrics.counters.vals[k] = metrics.ingested[k]
            /\ k \notin metrics.counters.keys => metrics.counters.vals[k] = 0)
    /\ [][metrics'.flushes # metrics.flushes =>
            /\ metrics'.counters = NoCounters
            /\ \A k \in MetricKeys :
                 metrics'.flushed[k] = metrics.flushed[k] + metrics.counters.vals[k]]_vars

\* two snapshots were published and increments ingested since are held
HeldAfterTwoFlushes ==
    /\ metrics.flushes >= 2
    /\ metrics.flushed["a"] > 2
    /\ metrics.counters.keys = {"a"} /\ metrics.counters.vals["a"] > 0

RECURSIVE SumSnapshots(_)
\* The key-wise sum of a list of snapshots
SumSnapshots(log) ==
    IF log = <<>> THEN NoCounters
    ELSE LET rest == SumSnapshots(Tail(log))
             snap == Head(log)
         IN  [keys |-> rest.keys \cup snap.keys,
              vals |-> [k \in MetricKeys |->
                          rest.vals[k] + (IF k \in snap.keys THEN snap.vals[k] ELSE 0)]]

\* C30: at most one debounce timeout is pending, one is pending whenever the leader has
\* received a flush not yet published, and each expiry publishes exactly one cluster
\* flush event, whose value for each key is the sum of the flushes received since the
\* timeout was armed
DebounceCoalesces ==
    /\ [](metrics.timers <= 1 /\ (metrics.recvLog # <<>> => metrics.timers = 1))
    /\ [][metrics'.timers < metrics.timers =>
            /\ metrics'.events = metrics.events + 1
            /\ metrics'.event = SumSnapshots(metrics.recvLog)
            /\ metrics'.recvLog = <<>>]_vars

\* one cluster flush event closed several worker flushes
SeveralFlushesCoalesced ==
    /\ metrics.events >= 1
    /\ metrics.coalesced >= 2
    /\ metrics.event.vals["a"] >= 4
\* The first fork (pid 1) is the worker forked with index 0
FirstLeaderGone == cluster.forks > 0 /\ 1 \notin Live(cluster)

\* C32 as stated: once the worker with index 0 has exited, no live worker has index 0,
\* whatever the configured worker count
LeaderNeverReplaced ==
    FirstLeaderGone => \A p \in Live(cluster) : ~LeaderOnly(cluster, p)

\* C32, amended: with two or more workers configured, once the worker with index 0 has
\* exited no live worker has index 0 and no cluster-wide event is published any more
LeaderNotReplaced ==
    /\ []((cluster.desired >= 2 /\ FirstLeaderGone) =>
            \A p \in Live(cluster) : ~LeaderOnly(cluster, p))
    /\ [][(cluster.desired >= 2 /\ FirstLeaderGone) =>
            cluster'.published = cluster.published]_vars

\* the leader of a two-worker cluster exited, workers were respawned, none has index 0
LeaderGoneForGood ==
    /\ cluster.desired >= 2
    /\ FirstLeaderGone
    /\ cluster.forks >= cluster.desired + 2
    /\ Cardinality(Live(cluster)) = cluster.desired
    /\ \A p \in Live(cluster) : ~LeaderOnly(cluster, p)
\* C31: a heartbeat a worker sent to the primary is forwarded to every live worker; it
\* changes the stored samples of no worker but the one with index 0, where it replaces
\* the sample stored under its sender's key and leaves the other keys alone
HeartbeatForwarded ==
    [][/\ hb'.ipc.up # hb.ipc.up /\ hb'.ipc.sent = hb.ipc.sent =>
             \A q \in Live(cluster) :
                 /\ hb'.ipc.down[q] # <<>>
                 /\ hb'.ipc.down[q][Len(hb'.ipc.down[q])] = Head(hb.ipc.up)
       /\ \A q \in 1..MaxForks :
             /\ hb'.ipc.rec[q] # hb.ipc.rec[q] => LeaderOnly(cluster, q)
             /\ (hb'.ipc.down[q] # hb.ipc.down[q] /\ hb'.ipc.up = hb.ipc.up
                    /\ LeaderOnly(cluster, q)) =>
                   LET m == Head(hb.ipc.down[q])
                   IN  /\ DOMAIN hb'.ipc.rec[q] = DOMAIN hb.ipc.rec[q] \cup {m.from}
                       /\ hb'.ipc.rec[q][m.from] = m.sample
                       /\ \A k \in DOMAIN hb.ipc.rec[q] \ {m.from} :
                             hb'.ipc.rec[q][k] = hb.ipc.rec[q][k]]_vars

\* the leader replaced a stored sample while another worker, which received the
\* heartbeats too, stored nothing
SampleOverwritten ==
    /\ hb.ipc.overwrites >= 1
    /\ hb.ipc.up = <<>>
    /\ \A q \in Live(cluster) : hb.ipc.down[q] = <<>>
    /\ \E q \in Live(cluster) : ~LeaderOnly(cluster, q) /\ hb.ipc.rec[q] = <<>>
    /\ \E q \in Live(cluster) : LeaderOnly(cluster, q) /\ hb.ipc.rec[q] # <<>>

\* C33: right after an enqueue that stored a job in the in-memory queue of a server with
\* no remote list, throttleActive is true exactly when the queue length is at least
\* throttlecount
ThrottleAfterEnqueue ==
    [][(InMemory /\ hist'.memLog # hist.memLog) =>
          (jq'.throttleActive <=> Len(jq'.queue) >= options.throttlecount)]_vars

\* an enqueue ended a throttle that consumption had left on: the last call returned the
\* id of the job it stored, the queue is below throttlecount and a throttle was counted
ThrottleEndedByEnqueue ==
    /\ InMemory
    /\ ret.op = "enqueue" /\ ~ret.threw
    /\ hist.memLog # <<>> /\ hist.memLog[Len(hist.memLog)] = ret.id
    /\ jq.queue # <<>> /\ jq.queue[Len(jq.queue)].id = ret.id
    /\ jq.throttleEvents >= 1
    /\ ~jq.throttleActive
    /\ Len(jq.queue) < options.throttlecount

\* C34: on a started EventServer, every published event that matches the topic of a
\* subscription made before the publish invokes that subscription's handler exactly
\* once, whether the topic is exact, a prefix pattern or '*'
HandlerInvokedOnce ==
    \A h \in DOMAIN subs : \A i \in 1..MaxPubs :
        (/\ pubs[i].pc \in {"await", "returned"}
         /\ ~pubs[i].early
         /\ h <= pubs[i].nsub
         /\ Matches(subs[h].topic, pubs[i].env.event)) =>
            Len(SelectSeq(seen[h], LAMBDA x : x = i)) = 1

\* C35: of two publish calls on a started EventServer, the second made before the first
\* has settled, every adapter is invoked with the first call's envelope before the
\* second's: while the earlier call waits for an adapter, the later call has been handed
\* to no adapter beyond that one
AdaptersInPublishOrder ==
    \A i, j \in 1..MaxPubs :
        (/\ i < j
         /\ pubs[i].pc = "await" /\ ~pubs[i].early
         /\ pubs[j].pc \in {"await", "returned"} /\ ~pubs[j].early) =>
            Len(pubs[j].inv) <= Len(pubs[i].inv)

\* C36: a message published on a remote-attached bus is delivered to each handler
\* subscribed to its topic in the publishing process exactly once; the copy that comes
\* back through the pattern subscription is not delivered again
BusDeliveredOnce ==
    \A i \in DOMAIN bus.calls : \A h \in DOMAIN bus.handlers :
        (/\ bus.calls[i].remote # "skipped"
         /\ BusSubscribed(i, h)
         /\ BusNoThrowBefore(i, h)) =>
            Len(SelectSeq(bus.handlers[h].got, LAMBDA x : x = i)) = 1

\* C37: after close() the bus holds no remote connection in any later state, whatever
\* InfraStatus emits afterwards
ClosedBusStaysDetached ==
    bus.closed => (~bus.attached /\ bus.pub = "null" /\ bus.sub = "null")

\* C38: on a running server every job for which enqueue returned an id is eventually
\* executed by a pump loop, a job stored in the in-memory queue as a fallback included
EnqueuedExecuted ==
    \A id \in 1..MaxJobs :
        (jq.running /\ hist.nextId > id) ~> (hist.execCount[id] >= 1)

\* The part of C38 that holds: the jobs whose push did not fail are executed
PushedExecuted ==
    \A id \in 1..MaxJobs :
        (jq.running /\ hist.nextId > id /\ id \notin hist.pushFailed) ~> (hist.execCount[id] >= 1)

FleetQuiet ==
    /\ metrics.fleet.incs > 0
    /\ metrics.fleet.net = <<>>
    /\ \A w \in Workers : metrics.fleet.counters[w].keys = {}
    /\ metrics.timers = 0

\* C40: for every counter key the values of the cluster flush events the leader
\* published add up to the raw increments all workers published, each increment counted
\* once, on remote-attached and on local-only buses (once everything held is flushed)
ClusterFlushSumsIncrements ==
    FleetQuiet => \A k \in MetricKeys : metrics.fleet.out[k] = metrics.fleet.raw[k]

\* The same on remote-attached buses alone
AttachedFlushSumsIncrements ==
    (metrics.fleet.attached /\ FleetQuiet) =>
        \A k \in MetricKeys : metrics.fleet.out[k] = metrics.fleet.raw[k]
====
